---- MODULE Spec2Model ----
(***************************************************************************)
(* Document scoring and creditworthiness aggregation engine.               *)
(*                                                                         *)
(* Numbers.  Python floats are modelled by exact rationals: a quantity is  *)
(* kept as an integer numerator over a positive integer denominator and    *)
(* comparisons are done by cross-multiplication.  Values the code returns  *)
(* through round(x, 2) are integers counting hundredths (86.8 is 8680),   *)
(* values returned through round(x, 3) are integers counting thousandths. *)
(* Confidences of documents are given in thousandths (0.743 is 743).      *)
(*                                                                         *)
(* Dictionaries are functions; a key that is absent, and a key that holds  *)
(* None, are both a key outside DOMAIN.                                    *)
(*                                                                         *)
(* Calls.  The services are stateless request handlers: one action per     *)
(* handler writes the call and what it returned (or that it raised) into   *)
(* `call` and `result`; Return takes the process back to idle.            *)
(***************************************************************************)
EXTENDS Integers, Sequences, FiniteSets, TLC

VARIABLES
    call,           \* the request being served: [op |-> ..., ...arguments]
    result,         \* what the handler returned: [raised |-> BOOLEAN, ...]
    model_dir,      \* what MLModelService finds under models/trained
    model_loaded,   \* MLModelService.model_loaded
    models_dir,     \* what DocumentScoringService finds under models/scored, per kind
    models,         \* DocumentScoringService.models: the kinds with a model
    scalers,        \* DocumentScoringService.scalers: the kinds with a scaler
    features,       \* DocumentScoringService.features: the kinds with feature columns
    previous,       \* history: the call served before this one and what it returned
    warnings,       \* the 'model not available' warnings logged so far
    inflight,       \* per concurrent caller: the prediction call it is inside
    trainer,        \* the model object of the training process
    model_files,    \* the files under the directory the models are saved to
    loader          \* the model object of the process that loads the files

services == <<model_dir, model_loaded, models_dir, models, scalers, features>>
vars == <<call, result, model_dir, model_loaded, models_dir, models, scalers, features, previous,
          warnings, inflight, trainer, model_files, loader>>
persistence == <<trainer, model_files, loader>>

\* ------------------------------------------------------------------ bounds
MaxDocs == 2        \* documents per evaluation of DocumentCreditScorer
MaxWarnings == 7    \* warnings followed in the log

\* ------------------------------------------------------------- arithmetic
Min(a, b) == IF a <= b THEN a ELSE b
Max(a, b) == IF a >= b THEN a ELSE b

\* num / den rounded to an integer, den > 0; ties go to the even neighbour,
\* as Python's round does
RoundDiv(num, den) ==
    LET q == num \div den
        r == num % den
    IN  IF 2 * r < den THEN q
        ELSE IF 2 * r > den THEN q + 1
        ELSE IF q % 2 = 0 THEN q ELSE q + 1

\* round(num / den, 2) in hundredths, round(num / den, 3) in thousandths
Round2(num, den) == RoundDiv(num * 100, den)
Round3(num, den) == RoundDiv(num * 1000, den)

RECURSIVE SumSeq(_)
SumSeq(s) == IF s = <<>> THEN 0 ELSE Head(s) + SumSeq(Tail(s))

RECURSIVE MaxSeq(_)
MaxSeq(s) == IF Len(s) = 1 THEN s[1] ELSE Max(Head(s), MaxSeq(Tail(s)))

RECURSIVE MinSeq(_)
MinSeq(s) == IF Len(s) = 1 THEN s[1] ELSE Min(Head(s), MinSeq(Tail(s)))

\* dict.get(k, default)
Get(d, k, default) == IF k \in DOMAIN d THEN d[k] ELSE default

\* truthiness of dict.get(k) for a numeric value: None and 0 are falsy
Truthy(d, k) == k \in DOMAIN d /\ d[k] # 0

\* the concurrent callers of the model services
Callers == {"c1", "c2"}
NotCalling == [pc |-> "idle"]

Idle == [op |-> "idle"]
NoResult == [raised |-> FALSE]
NoPrevious == [call |-> Idle, result |-> NoResult]

\* ZeroDivisionError and the other exceptions a handler lets escape
Raised(what) == [raised |-> TRUE, error |-> what]

\* a handler that returned ret
Returned(ret) == [raised |-> FALSE, ret |-> ret]

\* --------------------------------------------------- models/document_models
\* DocumentAnalysisResult(document_type, status, confidence, extracted_data,
\* validation_issues, score, risk_flags, recommendations)
DocumentAnalysisResult(t, st, conf, data, issues, sc, flags, recs) ==
    [document_type |-> t, status |-> st, confidence |-> conf,
     extracted_data |-> data, validation_issues |-> issues, score |-> sc,
     risk_flags |-> flags, recommendations |-> recs]

\* ------------------------------------------------- DocumentCreditScorer
min_required_documents == [pay_slips |-> 2, tax_declaration |-> 1, bank_statement |-> 0]

OfType(documents, t) == SelectSeq(documents, LAMBDA d : d.document_type = t)

\* the net salaries of the pay slips whose net_salary is truthy
Salaries(documents) ==
    LET ps   == OfType(documents, "pay_slip")
        with == SelectSeq(ps, LAMBDA d : Truthy(d.extracted_data, "net_salary"))
    IN  [i \in 1..Len(with) |-> with[i].extracted_data["net_salary"]]

\* returns income_score and income_data; monthly_income is the average
\* salary, kept as the rational income_num / income_den
calculate_income_score(documents) ==
    LET salaries == Salaries(documents)
        n        == Len(salaries)
        total    == SumSeq(salaries)
        level    == IF n = 0 THEN 0
                    ELSE IF total >= 15000 * n THEN 40
                    ELSE IF total >= 10000 * n THEN 30
                    ELSE IF total >= 7000 * n THEN 20
                    ELSE IF total >= 4000 * n THEN 10
                    ELSE 5
        variance == MaxSeq(salaries) - MinSeq(salaries)
        \* consistency_ratio = variance / avg_salary if avg_salary > 0 else 1
        bonus    == IF n < 2 THEN 0
                    ELSE IF total <= 0 THEN 5
                    ELSE IF variance * n * 100 < 5 * total THEN 20
                    ELSE IF variance * n * 100 < 15 * total THEN 15
                    ELSE IF variance * n * 100 < 25 * total THEN 10
                    ELSE 5
        tds      == OfType(documents, "tax_declaration")
        withInc  == SelectSeq(tds, LAMBDA d : Truthy(d.extracted_data, "gross_annual_income"))
        tax      == 10 * Len(withInc)
    IN  [income_score  |-> Min(level + bonus + tax, 100),
         income_num    |-> IF n = 0 THEN 0 ELSE total,
         income_den    |-> IF n = 0 THEN 1 ELSE n,
         annual_income |-> IF Len(withInc) = 0 THEN 0
                           ELSE withInc[Len(withInc)].extracted_data["gross_annual_income"]]

\* calculate_consistency_score without its `if not documents` guard
calculate_consistency_score_unguarded(documents) ==
    LET n     == Len(documents)
        valid == Len(SelectSeq(documents, LAMBDA d : d.status = "valid"))
        sc    == SumSeq([i \in 1..n |-> documents[i].score])
        cf    == SumSeq([i \in 1..n |-> documents[i].confidence])
        num   == valid * 4000 + sc * 30 + cf * 3
    IN  IF n = 0 THEN Raised("ZeroDivisionError")
        ELSE [raised |-> FALSE, num |-> Min(num, 100 * 100 * n), den |-> 100 * n]

\* consistency score as the rational num / den, den = 100 * len(documents)
calculate_consistency_score(documents) ==
    LET n     == Len(documents)
        valid == Len(SelectSeq(documents, LAMBDA d : d.status = "valid"))
        sc    == SumSeq([i \in 1..n |-> documents[i].score])
        cf    == SumSeq([i \in 1..n |-> documents[i].confidence])
        num   == valid * 4000 + sc * 30 + cf * 3
    IN  IF n = 0 THEN [raised |-> FALSE, num |-> 0, den |-> 1]
        ELSE [raised |-> FALSE, num |-> Min(num, 100 * 100 * n), den |-> 100 * n]

\* the buckets with the bounds of the second and third swapped
DebtBucket_swapped(num, den) ==
    IF num <= 25 * den THEN 100
    ELSE IF num <= 40 * den THEN 80
    ELSE IF num <= 33 * den THEN 60
    ELSE IF num <= 50 * den THEN 40
    ELSE 20

\* score bucket of the debt ratio num / den (in percent), den > 0
DebtBucket(num, den) ==
    IF num <= 25 * den THEN 100
    ELSE IF num <= 33 * den THEN 80
    ELSE IF num <= 40 * den THEN 60
    ELSE IF num <= 50 * den THEN 40
    ELSE 20

\* calculate_debt_ratio_score without its guard: the division raises
calculate_debt_ratio_score_unguarded(income_num, income_den, monthly_payment) ==
    IF income_num = 0 THEN Raised("ZeroDivisionError")
    ELSE [raised |-> FALSE,
          score |-> DebtBucket(monthly_payment * 100 * income_den, income_num),
          ratio_num |-> monthly_payment * 100 * income_den, ratio_den |-> income_num]

\* monthly_income = income_num / income_den; debt_ratio = ratio_num / ratio_den
calculate_debt_ratio_score(income_num, income_den, monthly_payment) ==
    IF income_num <= 0
    THEN [raised |-> FALSE, score |-> 0, ratio_num |-> 0, ratio_den |-> 1]
    ELSE [raised |-> FALSE,
          score |-> DebtBucket(monthly_payment * 100 * income_den, income_num),
          ratio_num |-> monthly_payment * 100 * income_den, ratio_den |-> income_num]

\* rating, decision and risk level of overall_score = num / den
ScorerRating(num, den) ==
    IF num >= 80 * den THEN <<"Excellent", "Approved", "Low">>
    ELSE IF num >= 65 * den THEN <<"Good", "Approved", "Low">>
    ELSE IF num >= 50 * den THEN <<"Fair", "Review", "Medium">>
    ELSE IF num >= 35 * den THEN <<"Poor", "Review", "High">>
    ELSE <<"Rejected", "Rejected", "High">>

\* the weights with document quality counted against the applicant and its
\* share given to the debt ratio
Weights_shifted == <<35, 25, 50, -10>>

\* the weights of income, consistency, debt ratio and document quality in
\* overall_score (0.35, 0.25, 0.30, 0.10), in percent
Weights == <<35, 25, 30, 10>>

evaluate_creditworthiness(documents, requested_credit, monthly_payment) ==
    LET inc   == calculate_income_score(documents)
        cons  == calculate_consistency_score(documents)
        debt  == calculate_debt_ratio_score(inc.income_num, inc.income_den, monthly_payment)
        n     == Len(documents)
        N     == IF n = 0 THEN 1 ELSE n
        sc    == SumSeq([i \in 1..n |-> documents[i].score])
        \* every component in hundredths over the common denominator N:
        \* consistency is cons.num / (100 * N), quality is sc / N
        consH == IF n = 0 THEN 0 ELSE cons.num
        qualH == IF n = 0 THEN 0 ELSE 100 * sc
        incH  == 100 * inc.income_score * N
        debtH == 100 * debt.score * N
        \* income*0.35 + consistency*0.25 + debt*0.30 + quality*0.10,
        \* in hundredths over 100 * N
        ovN   == Weights[1] * incH + Weights[2] * consH + Weights[3] * debtH
                 + Weights[4] * qualH
        ovD   == 100 * N
        rat   == ScorerRating(ovN, 100 * ovD)
        \* min((consistency + quality) / 200, 1.0), in thousandths over 20 * N
        cfN   == Min(consH + qualH, 20000 * N)
        strengths ==
            (IF inc.income_score >= 70 THEN <<"Strong income level">> ELSE <<>>)
            \o (IF debt.score >= 80 THEN <<"Low debt-to-income ratio">> ELSE <<>>)
            \o (IF consH >= 7000 * N THEN <<"Consistent documentation">> ELSE <<>>)
            \o (IF qualH >= 7500 * N THEN <<"High quality documents">> ELSE <<>>)
        weaknesses ==
            (IF inc.income_score < 40 THEN <<"Low income level">> ELSE <<>>)
            \o (IF debt.score < 50 THEN <<"High debt-to-income ratio">> ELSE <<>>)
            \o (IF consH < 5000 * N THEN <<"Inconsistent or incomplete documentation">> ELSE <<>>)
            \o (IF qualH < 5000 * N THEN <<"Poor quality or suspicious documents">> ELSE <<>>)
        pay_slip_count == Len(OfType(documents, "pay_slip"))
        tax_decl_count == Len(OfType(documents, "tax_declaration"))
        missing ==
            (IF pay_slip_count < min_required_documents.pay_slips
             THEN <<"Pay slips">> ELSE <<>>)
            \o (IF tax_decl_count < min_required_documents.tax_declaration
                THEN <<"Tax declaration">> ELSE <<>>)
    IN  IF cons.raised THEN Raised(cons.error)
        ELSE IF debt.raised THEN Raised(debt.error)
        ELSE Returned(
             [overall_score          |-> RoundDiv(ovN, ovD),
              income_score           |-> 100 * inc.income_score,
              consistency_score      |-> RoundDiv(consH, N),
              debt_ratio_score       |-> 100 * debt.score,
              document_quality_score |-> RoundDiv(qualH, N),
              rating                 |-> rat[1],
              decision               |-> rat[2],
              confidence             |-> RoundDiv(cfN, 20 * N),
              risk_level             |-> rat[3],
              income_num             |-> inc.income_num,
              income_den             |-> inc.income_den,
              debt_to_income_ratio   |-> Round2(debt.ratio_num, debt.ratio_den),
              strengths              |-> strengths,
              weaknesses             |-> weaknesses,
              required_documents     |-> <<"2 recent pay slips", "Tax declaration">>,
              missing_documents      |-> missing])

\* ------------------------------------------------------ DocumentAnalyzer
\* Amounts of the analyzer are counted in hundredths of a dirham, the
\* precision of the amounts its patterns capture.
min_monthly_income == 3000
max_debt_to_income == 40     \* percent
min_employment_months == 6

None == [is_none |-> TRUE]
Some(v) == [is_none |-> FALSE, val |-> v]

Digits == <<"0", "1", "2", "3", "4", "5", "6", "7", "8", "9">>
IsDigit(c) == \E i \in 1..10 : Digits[i] = c
DigitVal(c) == (CHOOSE i \in 1..10 : Digits[i] = c) - 1

RECURSIVE DigitsVal(_)
DigitsVal(cs) == IF cs = <<>> THEN 0
                 ELSE DigitsVal(SubSeq(cs, 1, Len(cs) - 1)) * 10 + DigitVal(cs[Len(cs)])

\* amount_str.replace(',', '').replace(' ', '')
StripSeparators(cs) == SelectSeq(cs, LAMBDA c : c # "," /\ c # " ")

\* float(amount_str): digits with at most one decimal point; anything else
\* (a line break or tab captured by \s) is a ValueError
FloatParses(cs) ==
    /\ \A i \in 1..Len(cs) : IsDigit(cs[i]) \/ cs[i] = "."
    /\ Cardinality({i \in 1..Len(cs) : cs[i] = "."}) <= 1
    /\ \E i \in 1..Len(cs) : IsDigit(cs[i])

\* the value of float(amount_str) in hundredths (two decimals are kept)
FloatValue(cs) ==
    LET dots == {i \in 1..Len(cs) : cs[i] = "."}
        dot  == IF dots = {} THEN Len(cs) + 1 ELSE CHOOSE i \in dots : TRUE
        int  == SubSeq(cs, 1, dot - 1)
        frac == SubSeq(cs, dot + 1, Min(Len(cs), dot + 2))
        pad  == IF Len(frac) = 0 THEN 0
                ELSE IF Len(frac) = 1 THEN DigitVal(frac[1]) * 10
                ELSE DigitsVal(frac)
    IN  DigitsVal(int) * 100 + pad

\* A text is what the patterns find in it: text.m maps a pattern to the
\* characters of its first capture, text.names a name pattern to its capture,
\* text.credits / text.debits are the captures of the transaction patterns.
\* a variant that gives up at the first pattern that matches
_extract_amount_first_match(text, patterns, default) ==
    LET matching == {i \in 1..Len(patterns) : patterns[i] \in DOMAIN text.m}
        first    == CHOOSE i \in matching : \A j \in matching : i <= j
        amount   == StripSeparators(text.m[patterns[first]])
    IN  IF matching = {} \/ ~FloatParses(amount) THEN default ELSE FloatValue(amount)

RECURSIVE _extract_amount(_, _, _)
_extract_amount(text, patterns, default) ==
    IF patterns = <<>> THEN default
    ELSE IF Head(patterns) \in DOMAIN text.m
            /\ FloatParses(StripSeparators(text.m[Head(patterns)]))
         THEN FloatValue(StripSeparators(text.m[Head(patterns)]))
         ELSE _extract_amount(text, Tail(patterns), default)

_extract_gross_salary(text) == _extract_amount(text, <<"Brut", "amount MAD">>, 1000000)
_extract_net_salary(text) == _extract_amount(text, <<"Net">>, 800000)
_extract_annual_income(text) == _extract_amount(text, <<"Revenu Global">>, 12000000)
_extract_taxable_income(text) == _extract_amount(text, <<"Revenu Imposable">>, 9600000)
_extract_tax_paid(text) == _extract_amount(text, <<"Impot">>, 500000)
_extract_final_balance(text) == _extract_amount(text, <<"Solde">>, 1500000)

_extract_deductions(text) ==
    [cnss |-> _extract_amount(text, <<"CNSS">>, 0),
     amo  |-> _extract_amount(text, <<"AMO">>, 0),
     cimr |-> _extract_amount(text, <<"CIMR">>, 0),
     ir   |-> _extract_amount(text, <<"IR">>, 0)]

_extract_name(text, pattern) == Get(text.names, pattern, "Unknown")

\* credits and debits are converted outside any try: a capture that float()
\* rejects raises ValueError
TransactionsParse(text) ==
    /\ \A i \in 1..Len(text.credits) : FloatParses(StripSeparators(text.credits[i]))
    /\ \A i \in 1..Len(text.debits) : FloatParses(StripSeparators(text.debits[i]))

_extract_transactions(text) ==
    [credits |-> [i \in 1..Len(text.credits) |-> FloatValue(StripSeparators(text.credits[i]))],
     debits  |-> [i \in 1..Len(text.debits) |-> FloatValue(StripSeparators(text.debits[i]))]]

\* monthly_income = num / den in hundredths
_calculate_salary_score(num, den) ==
    IF num >= 2000000 * den THEN 100
    ELSE IF num >= 1500000 * den THEN 90
    ELSE IF num >= 1000000 * den THEN 75
    ELSE IF num >= 600000 * den THEN 60
    ELSE IF num >= 300000 * den THEN 40
    ELSE 20

_calculate_tax_compliance_score(tax_paid, annual_income) ==
    IF annual_income <= 0 THEN 50
    ELSE IF 5 * annual_income <= 100 * tax_paid /\ 100 * tax_paid <= 40 * annual_income THEN 90
    ELSE IF 100 * tax_paid < 5 * annual_income THEN 70
    ELSE 85

_calculate_balance_score(balance) ==
    IF balance >= 5000000 THEN 100
    ELSE IF balance >= 3000000 THEN 90
    ELSE IF balance >= 2000000 THEN 80
    ELSE IF balance >= 1000000 THEN 65
    ELSE IF balance >= 500000 THEN 50
    ELSE 30

\* credits and debits are sums of unsigned captures, so credits >= 0
_calculate_cash_flow_score(credits, debits) ==
    IF credits = 0 THEN 50
    ELSE IF 100 * (credits - debits) >= 30 * credits THEN 100
    ELSE IF 100 * (credits - debits) >= 20 * credits THEN 85
    ELSE IF 100 * (credits - debits) >= 10 * credits THEN 70
    ELSE IF credits - debits >= 0 THEN 55
    ELSE 30

\* score = num / den
_get_rating(num, den) ==
    IF num >= 90 * den THEN "EXCELLENT"
    ELSE IF num >= 80 * den THEN "VERY_GOOD"
    ELSE IF num >= 70 * den THEN "GOOD"
    ELSE IF num >= 60 * den THEN "FAIR"
    ELSE IF num >= 50 * den THEN "POOR"
    ELSE "VERY_POOR"

\* monthly_income = num / den in hundredths
_identify_issues(num, den) ==
    (IF num < min_monthly_income * 100 * den
     THEN <<"Monthly income below minimum threshold">> ELSE <<>>)
    \o (IF num < 500000 * den THEN <<"Low income may affect loan approval">> ELSE <<>>)

_identify_balance_issues(balance, total_debits) ==
    (IF balance < 500000 THEN <<"Low bank balance">> ELSE <<>>)
    \o (IF 2 * balance < total_debits
        THEN <<"Insufficient buffer for monthly expenses">> ELSE <<>>)

\* monthly_income = inum / iden in hundredths, score = snum / sden
_generate_recommendations(inum, iden, snum, sden) ==
    (IF snum < 70 * sden THEN <<"Consider applying for a smaller loan amount">> ELSE <<>>)
    \o (IF inum < 800000 * iden THEN <<"Increase income sources before applying">> ELSE <<>>)
    \o (IF snum >= 80 * sden
        THEN <<"Strong application - eligible for competitive rates">> ELSE <<>>)

_generate_balance_recommendations(balance, snum, sden) ==
    (IF balance < 1000000
     THEN <<"Build emergency fund before taking new debt">> ELSE <<>>)
    \o (IF snum >= 80 * sden THEN <<"Good cash flow management">> ELSE <<>>)

\* scores are in hundredths, as round(x, 2) returns them
analyze_pay_slip(text) ==
    LET net_salary   == _extract_net_salary(text)
        salary_score == _calculate_salary_score(net_salary, 1)
        stability    == 70
        \* salary_score * 0.7 + stability_score * 0.3, over 10
        ovN          == salary_score * 7 + stability * 3
    IN  [document_type   |-> "PAY_SLIP",
         valid           |-> TRUE,
         employee_name   |-> _extract_name(text, "Employe"),
         company         |-> _extract_name(text, "Company"),
         pay_period      |-> _extract_name(text, "Periode"),
         gross_salary    |-> _extract_gross_salary(text),
         net_salary      |-> net_salary,
         deductions      |-> _extract_deductions(text),
         monthly_income  |-> net_salary,
         scores          |-> [salary_score    |-> 100 * salary_score,
                              stability_score |-> 100 * stability,
                              overall_score   |-> Round2(ovN, 10)],
         rating          |-> _get_rating(ovN, 10),
         issues          |-> _identify_issues(net_salary, 1),
         recommendations |-> _generate_recommendations(net_salary, 1, ovN, 10)]

analyze_tax_declaration(text) ==
    LET annual_income == _extract_annual_income(text)
        tax_paid      == _extract_tax_paid(text)
        \* monthly_income = annual_income / 12 if annual_income else 0
        income_score  == _calculate_salary_score(annual_income, 12)
        compliance    == _calculate_tax_compliance_score(tax_paid, annual_income)
        ovN           == income_score * 6 + compliance * 4
    IN  [document_type   |-> "TAX_DECLARATION",
         valid           |-> TRUE,
         fiscal_year     |-> Get(text.names, "Annee", "current year"),
         annual_income   |-> annual_income,
         monthly_income  |-> RoundDiv(annual_income, 12),
         taxable_income  |-> _extract_taxable_income(text),
         tax_paid        |-> tax_paid,
         scores          |-> [income_score     |-> 100 * income_score,
                              compliance_score |-> 100 * compliance,
                              overall_score    |-> Round2(ovN, 10)],
         rating          |-> _get_rating(ovN, 10),
         issues          |-> _identify_issues(annual_income, 12),
         recommendations |-> _generate_recommendations(annual_income, 12, ovN, 10)]

analyze_bank_statement(text) ==
    LET tx            == _extract_transactions(text)
        final_balance == _extract_final_balance(text)
        total_credits == SumSeq(tx.credits)
        total_debits  == SumSeq(tx.debits)
        balance_score == _calculate_balance_score(final_balance)
        cash_flow     == _calculate_cash_flow_score(total_credits, total_debits)
        ovN           == balance_score * 5 + cash_flow * 5
    IN  IF ~TransactionsParse(text)
        THEN [document_type |-> "BANK_STATEMENT", valid |-> FALSE,
              error |-> "ValueError", rating |-> "INSUFFICIENT_DATA"]
        ELSE [document_type     |-> "BANK_STATEMENT",
              valid             |-> TRUE,
              account_holder    |-> _extract_name(text, "Titulaire"),
              account_number    |-> _extract_name(text, "Compte"),
              final_balance     |-> final_balance,
              total_credits     |-> total_credits,
              total_debits      |-> total_debits,
              net_cash_flow     |-> total_credits - total_debits,
              transaction_count |-> Len(tx.credits) + Len(tx.debits),
              scores            |-> [balance_score   |-> 100 * balance_score,
                                     cash_flow_score |-> 100 * cash_flow,
                                     overall_score   |-> Round2(ovN, 10)],
              rating            |-> _get_rating(ovN, 10),
              issues            |-> _identify_balance_issues(final_balance, total_debits),
              recommendations   |->
                  _generate_balance_recommendations(final_balance, ovN, 10)]

analyze_single_document(text, document_type) ==
    IF document_type = "PAY_SLIP" THEN Returned(analyze_pay_slip(text))
    ELSE IF document_type = "TAX_DECLARATION" THEN Returned(analyze_tax_declaration(text))
    ELSE IF document_type = "BANK_STATEMENT" THEN Returned(analyze_bank_statement(text))
    ELSE Raised("ValueError")

\* DocumentAnalyzer.extract_text_from_pdf re-raises what the PDF reader raises
analyzer_extract_text_from_pdf(pdf) ==
    IF pdf.readable THEN Returned(pdf.text) ELSE Raised("Failed to extract text from PDF")

\* POST /documents/analyze: extract the text, then analyse it
analyze_document_endpoint(pdf, document_type) ==
    LET text == analyzer_extract_text_from_pdf(pdf)
    IN  IF text.raised THEN text ELSE analyze_single_document(text.ret, document_type)

\* the multiplier of _calculate_max_credit_limit: 10 * {1.5, 1.3, 1.1, 0.9, 0.5}
CreditMultiplier(num, den) ==
    IF num >= 90 * den THEN 15
    ELSE IF num >= 80 * den THEN 13
    ELSE IF num >= 70 * den THEN 11
    ELSE IF num >= 60 * den THEN 9
    ELSE 5

\* eligibility with either condition sufficing
IsEligible_either(ovN, ovD, monthly_income) ==
    ovN >= 60 * ovD \/ monthly_income >= min_monthly_income * 100

\* is_eligible = overall_score >= 60 and monthly_income >= self.min_monthly_income,
\* overall_score = ovN / ovD, monthly_income in hundredths
IsEligible(ovN, ovD, monthly_income) ==
    ovN >= 60 * ovD /\ monthly_income >= min_monthly_income * 100

\* documents maps "PAY_SLIP" to a list of dicts (a single dict is the
\* one-element list, line 457) and "TAX_DECLARATION", "BANK_STATEMENT" to a
\* dict.  Scores in the dicts are in hundredths; the weights are in percent.
\* now is the reading of the clock that analysis_date is taken from.
calculate_overall_creditworthiness(documents, requested_credit, monthly_payment, now) ==
    LET hasPay  == "PAY_SLIP" \in DOMAIN documents /\ documents["PAY_SLIP"] # <<>>
        latest  == documents["PAY_SLIP"][1]
        payS    == Get(latest, "salary_score", 0) + Get(latest, "stability_score", 0)
        hasTax  == "TAX_DECLARATION" \in DOMAIN documents
        taxS    == Get(documents["TAX_DECLARATION"], "income_score", 0)
                   + Get(documents["TAX_DECLARATION"], "compliance_score", 0)
        hasBank == "BANK_STATEMENT" \in DOMAIN documents
        bankS   == Get(documents["BANK_STATEMENT"], "balance_score", 0)
                   + Get(documents["BANK_STATEMENT"], "cash_flow_score", 0)
        \* document_scores[k] = S / 2; total_score = sum of S / 2 * weight
        total   == (IF hasPay THEN payS * 40 ELSE 0) + (IF hasTax THEN taxS * 35 ELSE 0)
                   + (IF hasBank THEN bankS * 25 ELSE 0)
        weights == (IF hasPay THEN 40 ELSE 0) + (IF hasTax THEN 35 ELSE 0)
                   + (IF hasBank THEN 25 ELSE 0)
        \* overall_score = (total_score / weights_sum) * 100 = ovN / ovD
        ovN     == IF weights > 0 THEN total ELSE 0
        ovD     == IF weights > 0 THEN 2 * weights ELSE 1
        monthly_income ==
            IF hasPay THEN Get(Get(latest, "extracted_data", <<>>), "net_salary", 0) ELSE 0
        is_eligible == IsEligible(ovN, ovD, monthly_income)
        hasRatio == monthly_income > 0 /\ monthly_payment > 0
        tooHigh  == hasRatio /\ monthly_payment * 100 > max_debt_to_income * monthly_income
        decision ==
            IF is_eligible
            THEN (IF tooHigh THEN <<"REJECTED", "Debt-to-income ratio too high">>
                  ELSE IF ovN >= 80 * ovD THEN <<"APPROVED", "Strong financial profile">>
                  ELSE IF ovN >= 70 * ovD THEN <<"APPROVED", "Good financial profile">>
                  ELSE <<"CONDITIONAL", "Acceptable profile with conditions">>)
            ELSE (IF monthly_income < min_monthly_income * 100
                  THEN <<"REJECTED", "Insufficient monthly income">>
                  ELSE <<"REJECTED", "Overall score too low">>)
        recommendations ==
            (IF monthly_income < 500000
             THEN <<"Consider increasing income sources">> ELSE <<>>)
            \o (IF ovN < 70 * ovD
                THEN <<"Improve financial stability before applying">> ELSE <<>>)
            \o (IF hasRatio /\ monthly_payment * 100 > 30 * monthly_income
                THEN <<"Reduce existing debt obligations">> ELSE <<>>)
            \o (IF decision[1] = "CONDITIONAL"
                THEN <<"Provide additional guarantees or co-signer">> ELSE <<>>)
    IN  Returned(
         [overall_score        |-> RoundDiv(10 * ovN, ovD),      \* round(x, 1), in tenths
          rating               |-> _get_rating(ovN, ovD),
          decision             |-> decision[1],
          decision_reason      |-> decision[2],
          is_eligible          |-> is_eligible,
          monthly_income       |-> monthly_income,
          \* round(debt_to_income, 3) in thousandths, or None
          debt_to_income_ratio |-> IF hasRatio
                                   THEN Some(Round3(monthly_payment, monthly_income))
                                   ELSE None,
          max_credit_limit     |-> monthly_income * CreditMultiplier(ovN, ovD),
          requested_credit     |-> requested_credit,
          monthly_payment      |-> monthly_payment,
          \* twice the document scores
          document_scores      |-> [k \in {x \in {"pay_slip", "tax_declaration",
                                                  "bank_statement"} :
                                              \/ x = "pay_slip" /\ hasPay
                                              \/ x = "tax_declaration" /\ hasTax
                                              \/ x = "bank_statement" /\ hasBank}
                                    |-> IF k = "pay_slip" THEN payS
                                        ELSE IF k = "tax_declaration" THEN taxS ELSE bankS],
          recommendations      |-> recommendations,
          analysis_date        |-> now])

\* POST /documents/evaluate-creditworthiness.  pay_slips are the uploads
\* pay_slip_1..3, tax_declaration and bank_statement an upload each; an
\* upload is None or a PDF.  Every document is analysed by
\* analyze_single_document and the dict it returns goes to the aggregator as
\* it is.  An HTTPException is a raise: 400 without documents, 500 for any
\* exception of the analysis.
Analysed(upload, document_type) == analyze_document_endpoint(upload, document_type)

evaluate_creditworthiness_endpoint(pay_slips, tax_declaration, bank_statement, requested_credit, monthly_payment, now) ==
    LET uploaded == SelectSeq(pay_slips, LAMBDA u : u # None)
        pay_slips_data == [i \in 1..Len(uploaded) |-> Analysed(uploaded[i], "PAY_SLIP")]
        tax  == Analysed(tax_declaration, "TAX_DECLARATION")
        bank == Analysed(bank_statement, "BANK_STATEMENT")
        failed == \/ \E i \in 1..Len(uploaded) : pay_slips_data[i].raised
                  \/ tax_declaration # None /\ tax.raised
                  \/ bank_statement # None /\ bank.raised
        documents ==
            (IF uploaded # <<>>
             THEN [x \in {"PAY_SLIP"} |-> [i \in 1..Len(uploaded) |-> pay_slips_data[i].ret]]
             ELSE <<>>)
            @@ (IF tax_declaration # None THEN [x \in {"TAX_DECLARATION"} |-> tax.ret] ELSE <<>>)
            @@ (IF bank_statement # None THEN [x \in {"BANK_STATEMENT"} |-> bank.ret] ELSE <<>>)
    IN  IF failed THEN Raised("HTTP 500")
        ELSE IF DOMAIN documents = {} THEN Raised("HTTP 400")
        ELSE calculate_overall_creditworthiness(documents, requested_credit, monthly_payment,
                                                now)

\* -------------------------------------------------------- DocumentParser
EmptyText == [len |-> 0, m |-> <<>>, names |-> <<>>, credits |-> <<>>, debits |-> <<>>]

\* DocumentParser.extract_text_from_pdf swallows the reader's exception
extract_text_from_pdf(pdf) == IF pdf.readable THEN pdf.text ELSE EmptyText

\* float(match.group(1).replace(',', '').replace(' ', '')), outside any try
Captured(text, pattern) == pattern \in DOMAIN text.m
CaptureParses(text, pattern) == FloatParses(StripSeparators(text.m[pattern]))
CaptureValue(text, pattern) == FloatValue(StripSeparators(text.m[pattern]))

\* the patterns whose capture the parser of each type converts: every
\* captured one, but only the first captured balance pattern (break, line 134)
ParsedPatterns(text, document_type) ==
    IF document_type = "pay_slip"
    THEN {"Salaire de Base", "Total Brut", "NET A PAYER", "CNSS:", "IR:"} \cap DOMAIN text.m
    ELSE IF document_type = "tax_declaration"
    THEN {"Revenu Brut Global", "Revenu Net Imposable", "Impot sur le Revenu"}
         \cap DOMAIN text.m
    ELSE IF document_type = "bank_statement"
    THEN (IF Captured(text, "Solde Final") THEN {"Solde Final"}
          ELSE {"Solde:"} \cap DOMAIN text.m)
    ELSE {}

\* the fields left None are left out
parse_pay_slip(text) ==
    LET gross == IF Captured(text, "Total Brut")
                 THEN [gross_salary |-> CaptureValue(text, "Total Brut")]
                 ELSE IF Captured(text, "Salaire de Base")
                 THEN [gross_salary |-> CaptureValue(text, "Salaire de Base")]
                 ELSE <<>>
        net   == IF Captured(text, "NET A PAYER")
                 THEN [net_salary |-> CaptureValue(text, "NET A PAYER")] ELSE <<>>
        emp   == IF "Employer" \in DOMAIN text.names
                 THEN [employer_name |-> text.names["Employer"]] ELSE <<>>
        month == IF "Month" \in DOMAIN text.names
                 THEN [month |-> text.names["Month"]] ELSE <<>>
        cnss  == IF Captured(text, "CNSS:")
                 THEN [cnss_deduction |-> CaptureValue(text, "CNSS:")] ELSE <<>>
        ir    == IF Captured(text, "IR:")
                 THEN [ir_deduction |-> CaptureValue(text, "IR:")] ELSE <<>>
    IN  gross @@ net @@ emp @@ month @@ cnss @@ ir

parse_tax_declaration(text) ==
    LET gross == IF Captured(text, "Revenu Brut Global")
                 THEN [gross_annual_income |-> CaptureValue(text, "Revenu Brut Global")]
                 ELSE <<>>
        taxab == IF Captured(text, "Revenu Net Imposable")
                 THEN [taxable_income |-> CaptureValue(text, "Revenu Net Imposable")]
                 ELSE <<>>
        paid  == IF Captured(text, "Impot sur le Revenu")
                 THEN [tax_paid |-> CaptureValue(text, "Impot sur le Revenu")] ELSE <<>>
        year  == IF "Annee Fiscale" \in DOMAIN text.names
                 THEN [fiscal_year |-> text.names["Annee Fiscale"]] ELSE <<>>
    IN  gross @@ taxab @@ paid @@ year

parse_bank_statement(text) ==
    LET acct  == IF "N Compte" \in DOMAIN text.names
                 THEN [account_number |-> text.names["N Compte"]] ELSE <<>>
        bal   == IF Captured(text, "Solde Final")
                 THEN [closing_balance |-> CaptureValue(text, "Solde Final")]
                 ELSE IF Captured(text, "Solde:")
                 THEN [closing_balance |-> CaptureValue(text, "Solde:")]
                 ELSE <<>>
        hold  == IF "Titulaire:" \in DOMAIN text.names
                 THEN [account_holder |-> text.names["Titulaire:"]] ELSE <<>>
    IN  acct @@ bal @@ hold

\* validation of the parsed data: <<issues, score>>, starting from score 50
ValidatePaySlip(d) ==
    LET net   == Truthy(d, "net_salary")
        gross == Truthy(d, "gross_salary")
        i1 == IF ~net THEN <<"Net salary not found">> ELSE <<>>
        s1 == IF ~net THEN 20 ELSE 0
        i2 == IF "employer_name" \notin DOMAIN d THEN <<"Employer name not found">> ELSE <<>>
        s2 == IF "employer_name" \notin DOMAIN d THEN 10 ELSE 0
        over == net /\ gross /\ d["net_salary"] > d["gross_salary"]
        i3 == IF over THEN <<"Net salary greater than gross salary - suspicious">> ELSE <<>>
        s3 == IF over THEN 30 ELSE 0
        \* deduction_ratio = (gross - net) / gross; gross > 0 for a captured amount
        high == net /\ gross /\ 100 * (d["gross_salary"] - d["net_salary"]) > 40 * d["gross_salary"]
        low  == net /\ gross /\ ~high
                /\ 100 * (d["gross_salary"] - d["net_salary"]) < 10 * d["gross_salary"]
        i4 == IF high THEN <<"Unusually high deductions">>
              ELSE IF low THEN <<"Unusually low deductions">> ELSE <<>>
        s4 == IF ~(net /\ gross) THEN 0 ELSE IF high THEN 10 ELSE IF low THEN 5 ELSE -10
    IN  <<i1 \o i2 \o i3 \o i4, 50 - s1 - s2 - s3 - s4>>

ValidateTaxDeclaration(d) ==
    LET gross == Truthy(d, "gross_annual_income")
        i1 == IF ~gross THEN <<"Annual income not found">> ELSE <<>>
        s1 == IF ~gross THEN 20 ELSE 0
        i2 == IF "fiscal_year" \notin DOMAIN d THEN <<"Fiscal year not found">> ELSE <<>>
        s2 == IF "fiscal_year" \notin DOMAIN d THEN 10 ELSE 0
        over == gross /\ Truthy(d, "taxable_income")
                /\ d["taxable_income"] > d["gross_annual_income"]
        i3 == IF over THEN <<"Taxable income exceeds gross income - suspicious">> ELSE <<>>
        s3 == IF over THEN 30 ELSE 0
    IN  <<i1 \o i2 \o i3, 50 - s1 - s2 - s3>>

ValidateBankStatement(d) ==
    LET bal == Truthy(d, "closing_balance")
        i1 == IF ~bal THEN <<"Balance not found">> ELSE <<>>
        s1 == IF ~bal THEN 20 ELSE 0
        i2 == IF "account_holder" \notin DOMAIN d THEN <<"Account holder not found">> ELSE <<>>
        s2 == IF "account_holder" \notin DOMAIN d THEN 10 ELSE 0
    IN  <<i1 \o i2, 50 - s1 - s2>>

\* a variant that takes more than one issue for suspicious
DetermineStatus_two_issues(score, validation_issues) ==
    IF score < 30 THEN "invalid"
    ELSE IF Len(validation_issues) > 1 THEN "suspicious"
    ELSE IF Len(validation_issues) > 0 THEN "incomplete"
    ELSE "valid"

\* "Determine status": the status of a score and its validation issues
DetermineStatus(score, validation_issues) ==
    IF score < 30 THEN "invalid"
    ELSE IF Len(validation_issues) > 3 THEN "suspicious"
    ELSE IF Len(validation_issues) > 0 THEN "incomplete"
    ELSE "valid"

\* score in points, confidence in thousandths
analyze_document(pdf, document_type) ==
    LET text == extract_text_from_pdf(pdf)
        data == IF document_type = "pay_slip" THEN parse_pay_slip(text)
                ELSE IF document_type = "tax_declaration" THEN parse_tax_declaration(text)
                ELSE IF document_type = "bank_statement" THEN parse_bank_statement(text)
                ELSE <<>>
        v    == IF document_type = "pay_slip" THEN ValidatePaySlip(data)
                ELSE IF document_type = "tax_declaration" THEN ValidateTaxDeclaration(data)
                ELSE IF document_type = "bank_statement" THEN ValidateBankStatement(data)
                ELSE <<<<>>, 50>>
        issues == v[1]
        status == DetermineStatus(v[2], issues)
        score  == IF status = "valid" THEN v[2] + 20 ELSE v[2]
        recs   == (IF issues # <<>> THEN <<"Verify document authenticity">> ELSE <<>>)
                  \o (IF score < 50 THEN <<"Submit additional supporting documents">> ELSE <<>>)
    IN  IF text.len < 50
        THEN Returned(DocumentAnalysisResult(document_type, "invalid", 0, <<>>,
                        <<"Failed to extract text from document">>, 0,
                        <<"Unreadable document">>,
                        <<"Upload a clearer, high-quality document">>))
        ELSE IF \E pt \in ParsedPatterns(text, document_type) : ~CaptureParses(text, pt)
        THEN Raised("ValueError")
        ELSE Returned(DocumentAnalysisResult(document_type, status, 10 * Min(score, 100), data,
                        issues, Max(0, Min(100, score)), issues, recs))

\* --------------------------------------------------------- MLModelService
\* Feature values in [0,1] (ocr_confidence, image_quality, salary_consistency,
\* savings_rate) are counted in 1/10000; the scores of the model services are
\* counted in thousandths of a point, confidences in thousandths.
Kinds == {"cin", "payslip", "tax", "bank"}
Statuses == {"VALID", "SUSPICIOUS", "INVALID", "INCOMPLETE"}

\* models/trained: no classifier.pkl; an artifact that fails to load; a model
\* saved before training (metadata.model_trained false); a trained model
ModelDirStates == {"missing", "corrupt", "untrained", "trained"}

\* model_loaded after __init__: the warning branch and the except branch both
\* leave it False
_load_model(dir) ==
    IF dir = "missing" THEN FALSE
    ELSE IF dir = "corrupt" THEN FALSE
    ELSE TRUE

\* status = 'VALID' if score >= 70 else 'SUSPICIOUS' if score >= 50 else 'INVALID'
FallbackStatus(score) ==
    IF score >= 70000 THEN "VALID" ELSE IF score >= 50000 THEN "SUSPICIOUS" ELSE "INVALID"

FallbackResult(score) ==
    [status               |-> FallbackStatus(score),
     score                |-> Max(0, Min(100000, score)),
     confidence           |-> 700,
     status_probabilities |-> [s \in {FallbackStatus(score)} |-> 700]]

\* the expiry penalty of _fallback_cin_analysis taken as 10 instead of 30
_fallback_cin_analysis_weak(data) ==
    FallbackResult(70000
        - (IF Get(data, "is_expired", FALSE) THEN 10000 ELSE 0)
        - (IF Get(data, "ocr_confidence", 10000) < 7000 THEN 20000 ELSE 0)
        - (IF ~Get(data, "has_photo", TRUE) THEN 25000 ELSE 0))

_fallback_cin_analysis(data) ==
    FallbackResult(70000
        - (IF Get(data, "is_expired", FALSE) THEN 30000 ELSE 0)
        - (IF Get(data, "ocr_confidence", 10000) < 7000 THEN 20000 ELSE 0)
        - (IF ~Get(data, "has_photo", TRUE) THEN 25000 ELSE 0))

\* min(100, net_salary / 100), net_salary in dirhams
_fallback_payslip_analysis(data) ==
    FallbackResult(Min(100000, 10 * Get(data, "net_salary", 0))
        - (IF ~Get(data, "has_company_stamp", TRUE) THEN 20000 ELSE 0)
        - (IF ~Get(data, "amounts_match", TRUE) THEN 30000 ELSE 0))

\* min(100, taxable_income / 1000)
_fallback_tax_analysis(data) ==
    FallbackResult(Min(100000, Get(data, "taxable_income", 0))
        - (IF ~Get(data, "has_official_stamp", TRUE) THEN 25000 ELSE 0)
        - (IF ~Get(data, "calculations_correct", TRUE) THEN 35000 ELSE 0))

\* min(100, avg_balance / 100) * 0.3 + min(100, avg_income / 50) * 0.7
BankBase(data) ==
    Min(30000, 3 * Get(data, "average_balance", 0))
    + Min(70000, 14 * Get(data, "avg_monthly_income", 0))

_fallback_bank_analysis(data) ==
    FallbackResult(BankBase(data)
        - (IF ~Get(data, "regular_income", TRUE) THEN 20000 ELSE 0)
        - (IF Get(data, "low_balance_incidents", 0) > 2 THEN 25000 ELSE 0))

_fallback_analysis(kind, data) ==
    IF kind = "cin" THEN _fallback_cin_analysis(data)
    ELSE IF kind = "payslip" THEN _fallback_payslip_analysis(data)
    ELSE IF kind = "tax" THEN _fallback_tax_analysis(data)
    ELSE _fallback_bank_analysis(data)

\* What DocumentAnalysisModel.predict_document does with the features is the
\* trained estimators' business: outcome is either that it raised or the
\* prediction it returned (score already clipped to [0,100] and rounded).
\* A model loaded untrained raises on every call (train_model.py line 222).
ModelOutcomes(dir) ==
    IF dir = "trained"
    THEN { [raises |-> TRUE] }
         \cup { [raises |-> FALSE,
                 prediction |-> [status |-> st, score |-> sc, confidence |-> cf,
                                 status_probabilities |->
                                     [x \in Statuses |-> IF x = st THEN cf ELSE (1000 - cf) \div 3]]]
                : st \in {"VALID", "INCOMPLETE"}, sc \in {0, 86800, 100000}, cf \in {910} }
    ELSE { [raises |-> TRUE] }

\* predict_*_document with the exception of the model let through
predict_document_uncaught(kind, extracted_data, loaded, outcome) ==
    IF ~loaded THEN Returned(_fallback_analysis(kind, extracted_data))
    ELSE IF outcome.raises THEN Raised("ML prediction failed")
    ELSE Returned(outcome.prediction)

\* predict_cin_document, predict_payslip_document, predict_tax_document and
\* predict_bank_statement_document: the same body over the kind's features
predict_document(kind, extracted_data, loaded, outcome) ==
    IF ~loaded THEN Returned(_fallback_analysis(kind, extracted_data))
    ELSE IF outcome.raises THEN Returned(_fallback_analysis(kind, extracted_data))
    ELSE Returned(outcome.prediction)

predict_cin_document(extracted_data, loaded, outcome) ==
    predict_document("cin", extracted_data, loaded, outcome)
predict_payslip_document(extracted_data, loaded, outcome) ==
    predict_document("payslip", extracted_data, loaded, outcome)
predict_tax_document(extracted_data, loaded, outcome) ==
    predict_document("tax", extracted_data, loaded, outcome)
predict_bank_statement_document(extracted_data, loaded, outcome) ==
    predict_document("bank", extracted_data, loaded, outcome)

\* ------------------------------------------------- DocumentScoringService
\* per kind: the model file is absent; loading the model raises; the model
\* loads and the scaler does not; model and scaler load and the metadata does
\* not; everything loads
ArtifactStates == {"no_model", "bad_model", "no_scaler", "no_meta", "complete"}

\* a variant with one try around the loop over cin, payslip, tax, bank: the
\* first artifact that fails to load ends the loading
_load_all_models_one_try(dir) ==
    LET order  == <<"cin", "payslip", "tax", "bank">>
        fails  == {i \in 1..4 : dir[order[i]] \in {"bad_model", "no_scaler", "no_meta"}}
        reached == {order[i] : i \in {j \in 1..4 : \A x \in fails : j <= x}}
    IN  [models   |-> {k \in reached : dir[k] \in {"no_scaler", "no_meta", "complete"}},
         scalers  |-> {k \in reached : dir[k] \in {"no_meta", "complete"}},
         features |-> {k \in reached : dir[k] = "complete"}]

_load_all_models(dir) ==
    [models   |-> {k \in Kinds : dir[k] \in {"no_scaler", "no_meta", "complete"}},
     scalers  |-> {k \in Kinds : dir[k] \in {"no_meta", "complete"}},
     features |-> {k \in Kinds : dir[k] = "complete"}]

Clip(score) == Max(0, Min(100000, score))

_fallback_cin_score(f) ==
    Clip(70000
        - (IF Get(f, "is_expired", FALSE) THEN 30000 ELSE 0)
        - (IF Get(f, "ocr_confidence", 10000) < 7000 THEN 20000 ELSE 0)
        - (IF ~Get(f, "has_photo", TRUE) THEN 25000 ELSE 0)
        - (IF ~Get(f, "text_legible", TRUE) THEN 15000 ELSE 0))

_fallback_payslip_score(f) ==
    Clip(Min(100000, 10 * Get(f, "net_salary", 0))
        - (IF ~Get(f, "has_company_stamp", TRUE) THEN 20000 ELSE 0)
        - (IF ~Get(f, "amounts_match", TRUE) THEN 30000 ELSE 0)
        - (IF Get(f, "months_since_issue", 0) > 3 THEN 15000 ELSE 0))

_fallback_tax_score(f) ==
    Clip(Min(100000, Get(f, "taxable_income", 0))
        - (IF ~Get(f, "has_official_stamp", TRUE) THEN 25000 ELSE 0)
        - (IF ~Get(f, "calculations_correct", TRUE) THEN 35000 ELSE 0)
        - (IF Get(f, "years_since_declaration", 0) > 2 THEN 20000 ELSE 0))

_fallback_bank_score(f) ==
    Clip(BankBase(f)
        - (IF ~Get(f, "regular_income", TRUE) THEN 20000 ELSE 0)
        - (IF Get(f, "low_balance_incidents", 0) > 2 THEN 25000 ELSE 0)
        - (IF Get(f, "savings_rate", 0) < 0 THEN 15000 ELSE 0))

_fallback_score(kind, f) ==
    IF kind = "cin" THEN _fallback_cin_score(f)
    ELSE IF kind = "payslip" THEN _fallback_payslip_score(f)
    ELSE IF kind = "tax" THEN _fallback_tax_score(f)
    ELSE _fallback_bank_score(f)

\* the feature columns the metadata of each kind lists
FeatureColumns(kind) ==
    IF kind = "cin"
    THEN {"is_expired", "ocr_confidence", "image_quality", "has_photo", "text_legible",
          "correct_format"}
    ELSE IF kind = "payslip"
    THEN {"gross_salary", "net_salary", "total_deductions", "has_company_stamp",
          "amounts_match", "has_required_fields", "salary_consistency", "months_since_issue"}
    ELSE IF kind = "tax"
    THEN {"gross_income", "taxable_income", "tax_paid", "has_official_stamp",
          "calculations_correct", "all_fields_filled", "income_reasonable",
          "years_since_declaration"}
    ELSE {"period_months", "opening_balance", "closing_balance", "average_balance",
          "total_credits", "total_debits", "avg_monthly_income", "avg_monthly_expenses",
          "savings_rate", "low_balance_incidents", "has_bank_header", "balances_match",
          "regular_income"}

\* the raw outputs of a regressor: it raises, or predicts any float
RegressorOutcomes ==
    { [raises |-> TRUE] } \cup { [raises |-> FALSE, score |-> sc] : sc \in {-20000, 53200, 130000} }

\* score_cin, score_payslip, score_tax, score_bank: the same body per kind.
\* Selecting the columns raises KeyError when the kind has no feature list or
\* the dict lacks a column; the scaler lookup raises when the kind has none.
score_document(kind, f, ms, ss, fs, outcome) ==
    IF kind \notin ms THEN Returned(_fallback_score(kind, f))
    ELSE IF \/ kind \notin fs
            \/ ~(FeatureColumns(kind) \subseteq DOMAIN f)
            \/ kind \notin ss
            \/ outcome.raises
         THEN Returned(_fallback_score(kind, f))
    ELSE Returned(Clip(outcome.score))

\* the warnings one score_* call writes to the log
score_warnings(kind, ms) == IF kind \notin ms THEN 1 ELSE 0

\* the warnings the two constructors write: _load_model when classifier.pkl
\* is absent, _load_all_models for every kind whose model file is absent
load_warnings(dir, dirs) ==
    (IF dir = "missing" THEN 1 ELSE 0) + Cardinality({k \in Kinds : dirs[k] = "no_model"})

score_cin(f, ms, ss, fs, outcome) == score_document("cin", f, ms, ss, fs, outcome)
score_payslip(f, ms, ss, fs, outcome) == score_document("payslip", f, ms, ss, fs, outcome)
score_tax(f, ms, ss, fs, outcome) == score_document("tax", f, ms, ss, fs, outcome)
score_bank(f, ms, ss, fs, outcome) == score_document("bank", f, ms, ss, fs, outcome)

\* ------------------------------------------ train_model, train_score_models
\* DocumentAnalysisModel and DocumentScoreModel objects.  A fitted estimator
\* is taken from the one-split trees over the scaled feature vector:
\* [column, threshold, below, above] reads position `column` of the vector,
\* so what it predicts depends on the order of feature_columns and on the
\* parameters of the scaler.
Range(seq) == { seq[i] : i \in 1..Len(seq) }

DocumentTypes == <<"CIN", "PAY_SLIP", "TAX_DECLARATION", "BANK_STATEMENT">>

prepare_features(document_type) ==
    IF document_type = "CIN"
    THEN <<"is_expired", "ocr_confidence", "image_quality", "has_photo", "text_legible",
           "correct_format">>
    ELSE IF document_type = "PAY_SLIP"
    THEN <<"gross_salary", "net_salary", "total_deductions", "has_company_stamp",
           "amounts_match", "has_required_fields", "salary_consistency",
           "months_since_issue">>
    ELSE IF document_type = "TAX_DECLARATION"
    THEN <<"gross_income", "taxable_income", "tax_paid", "has_official_stamp",
           "calculations_correct", "all_fields_filled", "income_reasonable",
           "years_since_declaration">>
    ELSE <<"period_months", "opening_balance", "closing_balance", "average_balance",
           "total_credits", "total_debits", "avg_monthly_income", "avg_monthly_expenses",
           "savings_rate", "low_balance_incidents", "has_bank_header", "balances_match",
           "regular_income">>

\* the columns select_dtypes(include=['bool']) finds
BoolColumns ==
    {"is_expired", "has_photo", "text_legible", "correct_format", "has_company_stamp",
     "amounts_match", "has_required_fields", "has_official_stamp", "calculations_correct",
     "all_fields_filled", "income_reasonable", "has_bank_header", "balances_match",
     "regular_income"}

\* astype(int) on the boolean columns
AsNumber(col, v) == IF col \in BoolColumns THEN (IF v THEN 1 ELSE 0) ELSE v

\* StandardScaler.transform followed by the split of a fitted tree
Split(tree, scaler, row) ==
    IF row[tree.column] - scaler.mean[tree.column] >= tree.threshold * scaler.scale[tree.column]
    THEN tree.above
    ELSE tree.below

\* DocumentAnalysisModel.__init__
DocumentAnalysisModel ==
    [class |-> "DocumentAnalysisModel", classifier |-> None, regressor |-> None,
     scaler |-> None, label_encoders |-> <<>>, feature_columns |-> <<>>,
     model_trained |-> FALSE]

\* DocumentAnalysisModel.predict_document
model_predict_document(m, features_dict, document_type) ==
    IF ~m.model_trained THEN Raised("Model not trained yet")
    ELSE IF ~(Range(prepare_features(document_type)) \subseteq DOMAIN features_dict)
    THEN Raised("KeyError")
    ELSE LET doc_type_encoded == (CHOOSE i \in 1..4 : DocumentTypes[i] = document_type) - 1
             row == [i \in 1..Len(m.feature_columns) |->
                        LET col == m.feature_columns[i]
                        IN  IF col = "doc_type_encoded" THEN doc_type_encoded
                            ELSE IF col \in Range(prepare_features(document_type))
                            THEN AsNumber(col, features_dict[col])
                            ELSE 0]
             leaf == Split(m.classifier, m.scaler, row)
             score == Split(m.regressor, m.scaler, row)
         IN  Returned([status |-> m.label_encoders.status[leaf.class],
                       confidence |-> leaf.proba,
                       score |-> Max(0, Min(100000, score))])

\* joblib.dump and joblib.load: the object goes through its pickle
joblib_dump(obj) == [pickle |-> obj]
joblib_load(file) == file.pickle

\* json.dump and json.load of the metadata: a list of str is an array of
\* strings in the same order, a bool is the literal true or false
json_dump(metadata) ==
    [k \in DOMAIN metadata |->
        IF k = "feature_columns"
        THEN [array |-> [i \in 1..Len(metadata[k]) |-> [string |-> metadata[k][i]]]]
        ELSE IF k = "model_trained"
        THEN [literal |-> IF metadata[k] THEN "true" ELSE "false"]
        ELSE [string |-> metadata[k]]]
json_load(text) ==
    [k \in DOMAIN text |->
        IF "array" \in DOMAIN text[k]
        THEN [i \in 1..Len(text[k].array) |-> text[k].array[i].string]
        ELSE IF "literal" \in DOMAIN text[k]
        THEN text[k].literal = "true"
        ELSE text[k].string]

\* a model directory nothing was saved to
NoFiles == <<>>

\* DocumentAnalysisModel.save_model: the files of model_dir
save_model(m) ==
    [classifier_pkl     |-> joblib_dump(m.classifier),
     regressor_pkl      |-> joblib_dump(m.regressor),
     scaler_pkl         |-> joblib_dump(m.scaler),
     label_encoders_pkl |-> joblib_dump(m.label_encoders),
     metadata_json      |-> json_dump([feature_columns |-> m.feature_columns,
                                       model_trained   |-> m.model_trained,
                                       model_version   |-> "1.0.0"])]

\* load_model leaving the flag of the fresh object as it is
load_model_untrained(m, files) ==
    [m EXCEPT !.classifier      = joblib_load(files.classifier_pkl),
              !.regressor       = joblib_load(files.regressor_pkl),
              !.scaler          = joblib_load(files.scaler_pkl),
              !.label_encoders  = joblib_load(files.label_encoders_pkl),
              !.feature_columns = json_load(files.metadata_json).feature_columns]

\* DocumentAnalysisModel.load_model on a directory save_model wrote
load_model(m, files) ==
    [m EXCEPT !.classifier      = joblib_load(files.classifier_pkl),
              !.regressor       = joblib_load(files.regressor_pkl),
              !.scaler          = joblib_load(files.scaler_pkl),
              !.label_encoders  = joblib_load(files.label_encoders_pkl),
              !.feature_columns = json_load(files.metadata_json).feature_columns,
              !.model_trained   = json_load(files.metadata_json).model_trained]

\* DocumentScoreModel.__init__: the estimator and the scaler are not fitted
DocumentScoreModel(document_type) ==
    [class |-> "DocumentScoreModel", document_type |-> document_type, model |-> None,
     scaler |-> None, feature_columns |-> <<>>]

\* DocumentScoreModel.predict; an estimator that was not fitted raises
predict(m, f) ==
    IF ~(Range(m.feature_columns) \subseteq DOMAIN f) THEN Raised("KeyError")
    ELSE IF m.model = None THEN Raised("NotFittedError")
    ELSE LET row == [i \in 1..Len(m.feature_columns) |->
                        AsNumber(m.feature_columns[i], f[m.feature_columns[i]])]
         IN  Returned(Max(0, Min(100000, Split(m.model, m.scaler, row))))

\* DocumentScoreModel.save: the three files of the document type
save(m) ==
    [model_pkl  |-> joblib_dump(m.model),
     scaler_pkl |-> joblib_dump(m.scaler),
     meta_json  |-> json_dump([document_type   |-> m.document_type,
                               feature_columns |-> m.feature_columns,
                               version         |-> "1.0.0"])]

\* DocumentScoreModel.load
load(m, files) ==
    [m EXCEPT !.model           = joblib_load(files.model_pkl),
              !.scaler          = joblib_load(files.scaler_pkl),
              !.feature_columns = json_load(files.meta_json).feature_columns]

\* the constructor, save and load of either class
Fresh(m) ==
    IF m.class = "DocumentAnalysisModel" THEN DocumentAnalysisModel
    ELSE DocumentScoreModel(m.document_type)
Save(m) == IF m.class = "DocumentAnalysisModel" THEN save_model(m) ELSE save(m)
Load(m, files) == IF m.class = "DocumentAnalysisModel" THEN load_model(m, files) ELSE load(m, files)

\* predict_document or predict of an object, by its class
Predict(m, f, document_type) ==
    IF m.class = "DocumentAnalysisModel" THEN model_predict_document(m, f, document_type)
    ELSE predict(m, f)

\* ------------------------------------------------------- generate_dataset
\* One row of generate_cin_data.  The issue date is issue_days_ago days
\* before the first reading of the clock, the expiry date 3650 days after the
\* issue date, and is_expired compares it with a second reading of the clock,
\* elapsed microseconds after the first.  ocr and quality are the draws after
\* clipping to [0.3, 1.0], in 1/10000; the row stores them rounded to three
\* decimals (in thousandths) and the score rounded to two (in hundredths).
generate_cin_data(issue_days_ago, elapsed, ocr, quality, has_photo, text_legible, correct_format) ==
    LET days_left  == 3650 - issue_days_ago
        is_expired == days_left < 0 \/ (days_left = 0 /\ 0 < elapsed)
        status == IF is_expired \/ ocr < 5000 \/ ~has_photo \/ ~text_legible THEN "INVALID"
                  ELSE IF ocr < 6500 \/ quality < 6000 \/ ~correct_format THEN "SUSPICIOUS"
                  ELSE "VALID"
        \* in 1/10000 of a point
        score  == ocr * 40 + quality * 30 + (IF ~is_expired THEN 200000 ELSE 0)
                  + (IF has_photo THEN 50000 ELSE 0) + (IF text_legible THEN 50000 ELSE 0)
    IN  [document_type  |-> "CIN",
         is_expired     |-> is_expired,
         ocr_confidence |-> RoundDiv(ocr, 10),
         image_quality  |-> RoundDiv(quality, 10),
         has_photo      |-> has_photo,
         text_legible   |-> text_legible,
         correct_format |-> correct_format,
         status         |-> status,
         score          |-> RoundDiv(score, 100)]

\* the rate in percent
_calculate_ir_rate(annual_income) ==
    IF annual_income < 30000 THEN 0
    ELSE IF annual_income < 50000 THEN 10
    ELSE IF annual_income < 60000 THEN 20
    ELSE IF annual_income < 80000 THEN 30
    ELSE IF annual_income < 180000 THEN 34
    ELSE 38

\* One row of generate_payslip_data.  base_salary is the clipped draw in
\* dirhams, other_deductions in hundredths, consistency the clipped draw in
\* 1/10000; amounts of the row are in hundredths.
\* a variant that leaves the other deductions out of the net salary
net_salary_less_cnss_and_ir(base_salary, total_deductions, other_deductions) ==
    base_salary * 100 - (total_deductions - other_deductions)

\* net_salary = base_salary - total_deductions, in hundredths
net_salary_of(base_salary, total_deductions, other_deductions) ==
    base_salary * 100 - total_deductions

generate_payslip_data(base_salary, other_deductions, months_ago, has_company_stamp, has_required_fields, consistency) ==
    LET cnss   == (base_salary * 448) \div 100             \* base_salary * 0.0448
        ir     == base_salary * _calculate_ir_rate(base_salary)
        total  == cnss + ir + other_deductions
        net    == net_salary_of(base_salary, total, other_deductions)
        diff   == base_salary * 100 - total - net
        amounts_match == (IF diff < 0 THEN 0 - diff ELSE diff) < 100
        status == IF ~amounts_match \/ ~has_required_fields THEN "INVALID"
                  ELSE IF ~has_company_stamp \/ consistency < 6000 THEN "SUSPICIOUS"
                  ELSE IF months_ago > 3 THEN "INCOMPLETE"
                  ELSE "VALID"
        \* 0.6 * min(100, net / 300) + 0.4 * quality_score, in hundredths over 500
        score  == Min(3000000, net)
                  + 500 * ((IF has_company_stamp THEN 800 ELSE 0)
                           + (IF amounts_match THEN 1200 ELSE 0)
                           + (IF has_required_fields THEN 1200 ELSE 0))
                  + 40 * consistency
    IN  [document_type       |-> "PAY_SLIP",
         gross_salary        |-> base_salary * 100,
         cnss_deduction      |-> cnss,
         ir_deduction        |-> ir,
         total_deductions    |-> total,
         net_salary          |-> net,
         has_company_stamp   |-> has_company_stamp,
         amounts_match       |-> amounts_match,
         has_required_fields |-> has_required_fields,
         salary_consistency  |-> RoundDiv(consistency, 10),
         months_since_issue  |-> months_ago,
         status              |-> status,
         score               |-> RoundDiv(score, 500)]

\* One row of generate_tax_declaration_data.  gross_income is the clipped
\* draw in dirhams, deduction_rate the draw in percent.  datetime.now().year is
\* read for the fiscal year, again for the status and again for the row:
\* status_year and row_year are how far the later readings are ahead of the
\* first.  Amounts of the row are in hundredths.
generate_tax_declaration_data(gross_income, deduction_rate, years_ago, status_year, row_year, has_official_stamp, calculations_correct, all_fields_filled) ==
    LET deductions == gross_income * deduction_rate
        taxable    == gross_income * 100 - deductions
        tax_rate   == _calculate_ir_rate(taxable \div 100)
        \* 0.6 < taxable_income / gross_income < 0.95
        income_reasonable == 60 * gross_income < taxable /\ taxable < 95 * gross_income
        status == IF ~calculations_correct \/ ~all_fields_filled THEN "INVALID"
                  ELSE IF ~has_official_stamp \/ ~income_reasonable THEN "SUSPICIOUS"
                  ELSE IF years_ago + status_year > 2 THEN "INCOMPLETE"
                  ELSE "VALID"
        compliance == (IF has_official_stamp THEN 25 ELSE 0)
                      + (IF calculations_correct THEN 35 ELSE 0)
                      + (IF all_fields_filled THEN 25 ELSE 0)
                      + (IF income_reasonable THEN 15 ELSE 0)
        \* 0.6 * min(100, taxable / 500) + 0.4 * compliance, in hundredths over 2500
        score == 3 * Min(5000000, taxable) + 100000 * compliance
    IN  [document_type           |-> "TAX_DECLARATION",
         gross_income            |-> gross_income * 100,
         deductions              |-> deductions,
         taxable_income          |-> taxable,
         tax_paid                |-> RoundDiv(taxable * tax_rate, 100),
         has_official_stamp      |-> has_official_stamp,
         calculations_correct    |-> calculations_correct,
         all_fields_filled       |-> all_fields_filled,
         income_reasonable       |-> income_reasonable,
         years_since_declaration |-> years_ago + row_year,
         status                  |-> status,
         score                   |-> RoundDiv(score, 2500)]

\* One row of generate_bank_statement_data.  opening_balance and
\* monthly_credits are the clipped draws in dirhams, expense_ratio the draw in
\* percent, incidents the draw of randint(0, period_months).  Amounts of the
\* row are in hundredths, savings_rate in thousandths.
generate_bank_statement_data(period_months, opening_balance, monthly_credits, expense_ratio, incidents, has_bank_header, regular_income) ==
    LET total_credits == monthly_credits * period_months * 100
        total_debits  == monthly_credits * period_months * expense_ratio
        computed      == opening_balance * 100 + total_credits - total_debits
        closing_balance == Max(0, computed)
        diff          == computed - closing_balance
        balances_match == (IF diff < 0 THEN 0 - diff ELSE diff) < 10000
        \* (avg_monthly_income - avg_monthly_expenses) / avg_monthly_income
        savings_rate  == (100 - expense_ratio) * 10
        low_balance_incidents == IF closing_balance < 50000 THEN incidents ELSE 0
        status == IF ~balances_match \/ ~has_bank_header THEN "INVALID"
                  ELSE IF closing_balance < 0 \/ low_balance_incidents > 2 \/ ~regular_income
                  THEN "SUSPICIOUS"
                  ELSE IF period_months < 3 THEN "INCOMPLETE"
                  ELSE "VALID"
        stability_score == (IF regular_income THEN 30 ELSE 0)
                           + (IF savings_rate > 0 THEN 30 ELSE 0)
                           + (IF low_balance_incidents = 0 THEN 40 ELSE 0)
        \* 0.2 * min(100, average_balance / 100) + 0.4 * min(100, income / 50)
        \* + 0.4 * stability_score, in hundredths over 1000
        score == Min(2000000, opening_balance * 100 + closing_balance)
                 + 800 * Min(5000, monthly_credits) + 40000 * stability_score
    IN  [document_type         |-> "BANK_STATEMENT",
         period_months         |-> period_months,
         opening_balance       |-> opening_balance * 100,
         closing_balance       |-> closing_balance,
         average_balance       |-> RoundDiv(opening_balance * 100 + closing_balance, 2),
         total_credits         |-> total_credits,
         total_debits          |-> total_debits,
         avg_monthly_income    |-> monthly_credits * 100,
         avg_monthly_expenses  |-> monthly_credits * expense_ratio,
         savings_rate          |-> savings_rate,
         low_balance_incidents |-> low_balance_incidents,
         has_bank_header       |-> has_bank_header,
         balances_match        |-> balances_match,
         regular_income        |-> regular_income,
         status                |-> status,
         score                 |-> RoundDiv(score, 1000)]

\* ----------------------------------------------------------------- inputs
\* (status, score, confidence in thousandths) of the documents handed to the
\* scorer; the last two carry scores outside [0,100]
DocQualities ==
    { <<"valid", 100, 1000>>, <<"valid", 60, 700>>, <<"invalid", 0, 0>>,
      <<"suspicious", 150, 1000>>, <<"invalid", -50, 0>> }

NetSalaries == {0, 2500, 8000, 10000, 40000}
MonthlyPayments == {0, 3000, 10001, 18000, 22000}
RequestedCredits == {0, 100000}

ScorerDocs ==
    { DocumentAnalysisResult("pay_slip", q[1], q[3], [net_salary |-> s], <<>>, q[2], <<>>, <<>>)
        : q \in DocQualities, s \in NetSalaries }
    \cup { DocumentAnalysisResult("pay_slip", "incomplete", 300, <<>>,
                                  <<"Net salary not found">>, 30, <<>>, <<>>) }
    \cup { DocumentAnalysisResult("tax_declaration", q[1], q[3],
                                  [gross_annual_income |-> 120000], <<>>, q[2], <<>>, <<>>)
        : q \in DocQualities }
    \cup { DocumentAnalysisResult("tax_declaration", "incomplete", 300, <<>>,
                                  <<"Annual income not found">>, 30, <<>>, <<>>) }
    \cup { DocumentAnalysisResult("bank_statement", q[1], q[3], <<>>, <<>>, q[2], <<>>, <<>>)
        : q \in {<<"valid", 100, 1000>>, <<"invalid", 0, 0>>} }
    \* a pay slip whose assessment falls just short of a rating threshold
    \cup { DocumentAnalysisResult("pay_slip", "valid", 743, [net_salary |-> 40000], <<>>, 31,
                                  <<>>, <<>>) }

DocLists == UNION { [1..n -> ScorerDocs] : n \in 0..MaxDocs }

\* documents for two successive evaluations: between two of them only the
\* consistency (status), only the quality (score against confidence) or only
\* the income (salary) changes
PairQualities == { <<"valid", 60, 700>>, <<"valid", 100, 300>>, <<"invalid", 60, 700>> }
PairDocs ==
    { DocumentAnalysisResult("pay_slip", q[1], q[3], [net_salary |-> s], <<>>, q[2], <<>>, <<>>)
        : q \in PairQualities, s \in {2500, 40000} }
PairDocLists == UNION { [1..n -> PairDocs] : n \in 0..MaxDocs }
PairPayments == {0, 1000, 3000}

\* captures, character by character
A_8500   == <<"8", ",", "5", "0", "0", ".", "0", "0">>
A_10000  == <<"1", "0", ",", "0", "0", "0", ".", "0", "0">>
A_2500   == <<"2", ",", "5", "0", "0", ".", "0", "0">>
A_20000  == <<"2", "0", " ", "0", "0", "0">>
A_120000 == <<"1", "2", "0", ",", "0", "0", "0", ".", "0", "0">>
A_96000  == <<"9", "6", ",", "0", "0", "0", ".", "0", "0">>
A_5000   == <<"5", ",", "0", "0", "0", ".", "0", "0">>
A_380    == <<"3", "8", "0", ".", "8">>
\* "8500" broken over two lines: \s captures the line break, float() rejects it
A_broken == <<"8", "\n", "5", "0", "0">>

PaySlipText ==
    [len |-> 400,
     m |-> [x \in {"Brut", "amount MAD", "Net", "CNSS", "IR",
                   "Salaire de Base", "Total Brut", "NET A PAYER", "CNSS:", "IR:"} |->
              IF x \in {"Brut", "amount MAD", "Salaire de Base", "Total Brut"} THEN A_10000
              ELSE IF x \in {"Net", "NET A PAYER"} THEN A_8500
              ELSE A_380],
     names |-> [x \in {"Employe", "Company", "Periode", "Employer", "Month"} |->
              IF x = "Employe" THEN "Ahmed Alami"
              ELSE IF x \in {"Company", "Employer"} THEN "SOCIETE MAROC"
              ELSE "Janvier 2024"],
     credits |-> <<>>, debits |-> <<>>]

LowPaySlipText ==
    [PaySlipText EXCEPT !.m = [x \in {"Net", "NET A PAYER", "Total Brut", "Brut"} |->
                                 IF x \in {"Net", "NET A PAYER"} THEN A_2500 ELSE A_2500],
                        !.names = <<>>]

BrokenPaySlipText ==
    [PaySlipText EXCEPT !.m = [x \in {"Net", "NET A PAYER"} |-> A_broken]]

\* "Total Brut" broken over two lines, followed by "8,500.00 MAD"; no net line
SecondPatternText ==
    [PaySlipText EXCEPT !.m = [x \in {"Brut", "amount MAD"} |->
                                 IF x = "Brut" THEN A_broken ELSE A_8500]]

\* a pay slip with its net line and its employer and no gross line
NoGrossPaySlipText ==
    [PaySlipText EXCEPT !.m = [x \in {"Net", "NET A PAYER"} |-> A_8500]]

\* a pay slip whose net line states more than its gross line, without employer
InflatedPaySlipText ==
    [PaySlipText EXCEPT !.m = [x \in {"Net", "NET A PAYER", "Brut", "Total Brut"} |->
                                 IF x \in {"Net", "NET A PAYER"} THEN A_10000 ELSE A_8500],
                        !.names = <<>>]

TaxText ==
    [len |-> 300,
     m |-> [x \in {"Revenu Global", "Revenu Imposable", "Impot", "IR",
                   "Revenu Brut Global", "Revenu Net Imposable", "Impot sur le Revenu"} |->
              IF x \in {"Revenu Global", "Revenu Brut Global"} THEN A_120000
              ELSE IF x \in {"Revenu Imposable", "Revenu Net Imposable"} THEN A_96000
              ELSE A_5000],
     names |-> [x \in {"Annee", "Annee Fiscale"} |-> "2023"],
     credits |-> <<>>, debits |-> <<>>]

BankText ==
    [len |-> 500,
     m |-> [x \in {"Solde", "Solde Final", "Solde:"} |-> A_20000],
     names |-> [x \in {"Titulaire", "Compte", "N Compte", "Titulaire:"} |->
              IF x \in {"Titulaire", "Titulaire:"} THEN "Ahmed Alami" ELSE "0123456789"],
     credits |-> <<A_8500, A_2500>>, debits |-> <<A_5000>>]

BrokenBankText == [BankText EXCEPT !.credits = <<A_broken>>]

\* a PDF whose pages carry no text layer: one line break per page
BlankText == [EmptyText EXCEPT !.len = 1]

Texts == {EmptyText, BlankText, PaySlipText, LowPaySlipText, BrokenPaySlipText,
          SecondPatternText, NoGrossPaySlipText, InflatedPaySlipText,
          TaxText, BankText, BrokenBankText}

Pdfs == { [readable |-> TRUE, text |-> t] : t \in Texts }
        \cup { [readable |-> FALSE, text |-> EmptyText] }

ParserTypes == {"pay_slip", "tax_declaration", "bank_statement", "income_consistency"}
AnalyzerTypes == {"PAY_SLIP", "TAX_DECLARATION", "BANK_STATEMENT", "CIN"}

\* the dicts handed to calculate_overall_creditworthiness: what analyze_* returned,
\* and dicts that carry the keys the aggregator reads
PaySlipDicts ==
    { analyze_pay_slip(t) : t \in {PaySlipText, LowPaySlipText, BlankText} }
    \cup { [salary_score |-> sc, stability_score |-> 7000, extracted_data |-> [net_salary |-> n]]
            : sc \in {2000, 6000, 10000}, n \in {0, 250000, 2000000} }
    \cup { [salary_score |-> 6000, stability_score |-> 7000] }
    \* scores of well under a point, around the eligibility threshold
    \cup { [salary_score |-> sc, stability_score |-> 60,
            extracted_data |-> [net_salary |-> 2000000]] : sc \in {0, 59, 60} }

TaxDicts ==
    { analyze_tax_declaration(TaxText),
      [income_score |-> 7500, compliance_score |-> 9000],
      [income_score |-> 0, compliance_score |-> 0] }

BankDicts ==
    { analyze_bank_statement(BankText), analyze_bank_statement(BrokenBankText),
      [balance_score |-> 8000, cash_flow_score |-> 10000] }

MaxPaySlips == 2    \* pay slips per evaluation of DocumentAnalyzer

AnalyzerDocuments ==
    { ps @@ td @@ bs :
        ps \in {<<>>} \cup { [x \in {"PAY_SLIP"} |-> l] :
                               l \in UNION { [1..n -> PaySlipDicts] : n \in 0..MaxPaySlips } },
        td \in {<<>>} \cup { [x \in {"TAX_DECLARATION"} |-> d] : d \in TaxDicts },
        bs \in {<<>>} \cup { [x \in {"BANK_STATEMENT"} |-> d] : d \in BankDicts } }

\* the files a client uploads to the evaluation endpoint
Unreadable == [readable |-> FALSE, text |-> EmptyText]
PaySlipUploads ==
    { None, Unreadable, [readable |-> TRUE, text |-> PaySlipText],
      [readable |-> TRUE, text |-> LowPaySlipText] }
TaxUploads == { None, [readable |-> TRUE, text |-> TaxText], [readable |-> TRUE, text |-> BlankText] }
BankUploads ==
    { None, [readable |-> TRUE, text |-> BankText], [readable |-> TRUE, text |-> BrokenBankText] }

\* in hundredths
AnalyzerPayments == {0, 300000, 900000}

\* the instants datetime.now() reads
Clock == {1, 2}

\* documents for two successive evaluations by DocumentAnalyzer
PairAnalyzerDocuments ==
    { <<>>,
      [PAY_SLIP |-> <<analyze_pay_slip(PaySlipText)>>],
      [PAY_SLIP |-> <<[salary_score |-> 6000, stability_score |-> 7000,
                       extracted_data |-> [net_salary |-> 2000000]]>>],
      [PAY_SLIP |-> <<[salary_score |-> 6000, stability_score |-> 7000,
                       extracted_data |-> [net_salary |-> 2000000]]>>,
       TAX_DECLARATION |-> [income_score |-> 7500, compliance_score |-> 9000]] }
AnalyzerCredits == {0, 10000000}

\* feature dictionaries handed to the model services: complete ones, partial
\* ones and the empty one
CinFeatures ==
    { [is_expired |-> e, ocr_confidence |-> o, image_quality |-> q, has_photo |-> ph,
       text_legible |-> l, correct_format |-> cf]
        : e \in BOOLEAN, o \in {4000, 6800, 9200}, q \in {5000, 8800}, ph \in BOOLEAN,
          l \in BOOLEAN, cf \in BOOLEAN }
    \cup { <<>>, [is_expired |-> TRUE], [ocr_confidence |-> 4000, has_photo |-> FALSE] }

PayslipFeatures ==
    { [gross_salary |-> 8500, net_salary |-> n, total_deductions |-> 1300,
       has_company_stamp |-> st, amounts_match |-> am, has_required_fields |-> rf,
       salary_consistency |-> c, months_since_issue |-> mo]
        : n \in {-1000, 0, 7200, 20000}, st \in BOOLEAN, am \in BOOLEAN, rf \in BOOLEAN,
          c \in {5000, 8500}, mo \in {1, 6} }
    \cup { <<>>, [net_salary |-> 20000, amounts_match |-> FALSE] }

TaxFeatures ==
    { [gross_income |-> 250000, taxable_income |-> t, tax_paid |-> 20000,
       has_official_stamp |-> st, calculations_correct |-> cc, all_fields_filled |-> ff,
       income_reasonable |-> TRUE, years_since_declaration |-> y]
        : t \in {-5000, 45000, 200000}, st \in BOOLEAN, cc \in BOOLEAN, ff \in BOOLEAN,
          y \in {0, 3} }
    \cup { <<>> }

BankFeatures ==
    { [period_months |-> 3, opening_balance |-> 1000, closing_balance |-> 2000,
       average_balance |-> b, total_credits |-> 30000, total_debits |-> 25000,
       avg_monthly_income |-> i, avg_monthly_expenses |-> 7000, savings_rate |-> sr,
       low_balance_incidents |-> inc, has_bank_header |-> TRUE, balances_match |-> TRUE,
       regular_income |-> r]
        : b \in {-500, 5000, 20000}, i \in {0, 8000}, sr \in {-1000, 2000}, inc \in {0, 3},
          r \in BOOLEAN }
    \cup { <<>> }

\* the artifact directories the scoring service is started on: every kind
\* complete, no kind present, or one kind incomplete beside three complete ones
ModelsDirs ==
    { [k \in Kinds |-> "complete"], [k \in Kinds |-> "no_model"] }
    \cup { [k \in Kinds |-> IF k = bad THEN st ELSE "complete"]
            : bad \in Kinds, st \in ArtifactStates \ {"complete"} }

\* the datasets train_model is given, in the order it goes through them
TrainingOrders == { <<"CIN", "PAY_SLIP">>, <<"PAY_SLIP", "CIN">> }

\* X_combined.columns after pd.concat: the columns in order of appearance
CombinedColumns(order) ==
    prepare_features(order[1]) \o <<"doc_type_encoded">> \o prepare_features(order[2])

\* a StandardScaler fitted on n columns
FittedScaler(n) ==
    [mean  |-> [i \in 1..n |-> IF i = 2 THEN 7000 ELSE 0],
     scale |-> [i \in 1..n |-> 1]]

\* LabelEncoder.classes_ after fit: the labels sorted
StatusClasses == <<"INCOMPLETE", "INVALID", "SUSPICIOUS", "VALID">>

\* trained objects of both classes
TrainedModels ==
    { [class |-> "DocumentAnalysisModel",
       classifier |-> [column |-> c, threshold |-> 1,
                       below |-> [class |-> 2, proba |-> 870],
                       above |-> [class |-> 4, proba |-> 910]],
       regressor |-> [column |-> c, threshold |-> 1, below |-> 42500, above |-> 130000],
       scaler |-> FittedScaler(Len(CombinedColumns(o))),
       label_encoders |-> [status |-> StatusClasses],
       feature_columns |-> CombinedColumns(o),
       model_trained |-> TRUE]
        : c \in {2, 4}, o \in TrainingOrders }
    \cup { [class |-> "DocumentScoreModel", document_type |-> "cin",
             model |-> [column |-> c, threshold |-> 1, below |-> 42500, above |-> 91300],
             scaler |-> FittedScaler(Len(prepare_features("CIN"))),
             feature_columns |-> prepare_features("CIN")]
        : c \in {2, 4} }

\* the feature dicts the trained and the loaded object are asked about
PersistFeatures(document_type) ==
    IF document_type = "CIN"
    THEN { f \in CinFeatures :
             FeatureColumns("cin") \subseteq DOMAIN f
                 => ~f.is_expired /\ f.text_legible /\ f.correct_format }
    ELSE { f \in PayslipFeatures :
             FeatureColumns("payslip") \subseteq DOMAIN f
                 => f.amounts_match /\ f.has_required_fields /\ f.months_since_issue = 1 }

\* draws of the generator after clipping
IssueDaysAgo == {0, 1200, 3650}
Elapsed == {0, 1}
OcrDraws == {3000, 4996, 5500, 6496, 9200, 10000}
QualityDraws == {3000, 5996, 8800}
BaseSalaries == {2500, 8500, 50000}
OtherDeductions == {0, 25050}
ConsistencyDraws == {3000, 5996, 8500}
MonthsAgo == {0, 3, 4, 24}
GrossIncomes == {30000, 250000}
DeductionRates == {5, 12, 20}
YearsAgo == {0, 2, 3}
\* the year the later readings of the clock are ahead of the first
YearTurns == { <<0, 0>>, <<0, 1>>, <<1, 1>> }
PeriodMonths == {1, 3, 6}
OpeningBalances == {0, 3000}
MonthlyCredits == {1000, 8000}
ExpenseRatios == {60, 100, 120}

\* ---------------------------------------------------------------- actions
EvaluateCreditworthiness ==
    /\ call = Idle
    /\ \E documents \in DocLists, rc \in RequestedCredits, mp \in MonthlyPayments :
         /\ call' = [op |-> "evaluate_creditworthiness", documents |-> documents,
                     requested_credit |-> rc, monthly_payment |-> mp]
         /\ result' = evaluate_creditworthiness(documents, rc, mp)
    /\ UNCHANGED <<persistence, services, previous, warnings, inflight>>

CalculateOverallCreditworthiness ==
    /\ call = Idle
    /\ \E documents \in AnalyzerDocuments, rc \in AnalyzerCredits, mp \in AnalyzerPayments,
          now \in Clock :
         /\ call' = [op |-> "calculate_overall_creditworthiness", documents |-> documents,
                     requested_credit |-> rc, monthly_payment |-> mp]
         /\ result' = calculate_overall_creditworthiness(documents, rc, mp, now)
    /\ UNCHANGED <<persistence, services, previous, warnings, inflight>>

\* DocumentParser.analyze_document
AnalyzeDocument ==
    /\ call = Idle
    /\ \E pdf \in Pdfs, t \in ParserTypes :
         /\ call' = [op |-> "analyze_document", pdf |-> pdf, document_type |-> t]
         /\ result' = analyze_document(pdf, t)
    /\ UNCHANGED <<persistence, services, previous, warnings, inflight>>

\* POST /documents/analyze, served by DocumentAnalyzer
AnalyzeSingleDocument ==
    /\ call = Idle
    /\ \E pdf \in Pdfs, t \in AnalyzerTypes :
         /\ call' = [op |-> "analyze_single_document", pdf |-> pdf, document_type |-> t]
         /\ result' = analyze_document_endpoint(pdf, t)
    /\ UNCHANGED <<persistence, services, previous, warnings, inflight>>

\* POST /documents/evaluate-creditworthiness
EvaluateCreditworthinessEndpoint ==
    /\ call = Idle
    /\ \E ps \in [1..3 -> PaySlipUploads], td \in TaxUploads, bs \in BankUploads,
          mp \in {0, 250000}, now \in Clock :
         /\ call' = [op |-> "evaluate_creditworthiness_endpoint", pay_slips |-> ps,
                     tax_declaration |-> td, bank_statement |-> bs,
                     requested_credit |-> 5000000, monthly_payment |-> mp]
         /\ result' = evaluate_creditworthiness_endpoint(ps, td, bs, 5000000, mp, now)
    /\ UNCHANGED <<persistence, services, previous, warnings, inflight>>

PredictCinDocument ==
    /\ call = Idle
    /\ \E data \in CinFeatures, outcome \in ModelOutcomes(model_dir) :
         /\ call' = [op |-> "predict_cin_document", kind |-> "cin", features |-> data,
                     outcome |-> outcome]
         /\ result' = predict_cin_document(data, model_loaded, outcome)
    /\ UNCHANGED <<persistence, services, previous, warnings, inflight>>

PredictPayslipDocument ==
    /\ call = Idle
    /\ \E data \in PayslipFeatures, outcome \in ModelOutcomes(model_dir) :
         /\ call' = [op |-> "predict_payslip_document", kind |-> "payslip",
                     features |-> data, outcome |-> outcome]
         /\ result' = predict_payslip_document(data, model_loaded, outcome)
    /\ UNCHANGED <<persistence, services, previous, warnings, inflight>>

PredictTaxDocument ==
    /\ call = Idle
    /\ \E data \in TaxFeatures, outcome \in ModelOutcomes(model_dir) :
         /\ call' = [op |-> "predict_tax_document", kind |-> "tax", features |-> data,
                     outcome |-> outcome]
         /\ result' = predict_tax_document(data, model_loaded, outcome)
    /\ UNCHANGED <<persistence, services, previous, warnings, inflight>>

PredictBankStatementDocument ==
    /\ call = Idle
    /\ \E data \in BankFeatures, outcome \in ModelOutcomes(model_dir) :
         /\ call' = [op |-> "predict_bank_statement_document", kind |-> "bank",
                     features |-> data, outcome |-> outcome]
         /\ result' = predict_bank_statement_document(data, model_loaded, outcome)
    /\ UNCHANGED <<persistence, services, previous, warnings, inflight>>

ScoreCin ==
    /\ call = Idle
    /\ warnings + score_warnings("cin", models) <= MaxWarnings
    /\ \E f \in CinFeatures, outcome \in RegressorOutcomes :
         /\ call' = [op |-> "score_cin", kind |-> "cin", features |-> f, outcome |-> outcome]
         /\ result' = score_cin(f, models, scalers, features, outcome)
    /\ warnings' = warnings + score_warnings("cin", models)
    /\ UNCHANGED <<persistence, services, previous, inflight>>

ScorePayslip ==
    /\ call = Idle
    /\ warnings + score_warnings("payslip", models) <= MaxWarnings
    /\ \E f \in PayslipFeatures, outcome \in RegressorOutcomes :
         /\ call' = [op |-> "score_payslip", kind |-> "payslip", features |-> f,
                     outcome |-> outcome]
         /\ result' = score_payslip(f, models, scalers, features, outcome)
    /\ warnings' = warnings + score_warnings("payslip", models)
    /\ UNCHANGED <<persistence, services, previous, inflight>>

ScoreTax ==
    /\ call = Idle
    /\ warnings + score_warnings("tax", models) <= MaxWarnings
    /\ \E f \in TaxFeatures, outcome \in RegressorOutcomes :
         /\ call' = [op |-> "score_tax", kind |-> "tax", features |-> f, outcome |-> outcome]
         /\ result' = score_tax(f, models, scalers, features, outcome)
    /\ warnings' = warnings + score_warnings("tax", models)
    /\ UNCHANGED <<persistence, services, previous, inflight>>

ScoreBank ==
    /\ call = Idle
    /\ warnings + score_warnings("bank", models) <= MaxWarnings
    /\ \E f \in BankFeatures, outcome \in RegressorOutcomes :
         /\ call' = [op |-> "score_bank", kind |-> "bank", features |-> f, outcome |-> outcome]
         /\ result' = score_bank(f, models, scalers, features, outcome)
    /\ warnings' = warnings + score_warnings("bank", models)
    /\ UNCHANGED <<persistence, services, previous, inflight>>

\* one iteration of the loop of generate_cin_data
GenerateCinRow ==
    /\ call = Idle
    /\ \E d \in IssueDaysAgo, el \in Elapsed, o \in OcrDraws, q \in QualityDraws,
          ph \in BOOLEAN, l \in BOOLEAN, cf \in BOOLEAN :
         /\ call' = [op |-> "generate_cin_data", issue_days_ago |-> d, ocr |-> o,
                     quality |-> q]
         /\ result' = Returned(generate_cin_data(d, el, o, q, ph, l, cf))
    /\ UNCHANGED <<persistence, services, previous, warnings, inflight>>

\* one iteration of the loop of generate_payslip_data
GeneratePayslipRow ==
    /\ call = Idle
    /\ \E b \in BaseSalaries, od \in OtherDeductions, mo \in MonthsAgo, st \in BOOLEAN,
          rf \in BOOLEAN, c \in ConsistencyDraws :
         /\ call' = [op |-> "generate_payslip_data", base_salary |-> b, consistency |-> c]
         /\ result' = Returned(generate_payslip_data(b, od, mo, st, rf, c))
    /\ UNCHANGED <<persistence, services, previous, warnings, inflight>>

\* one iteration of the loop of generate_tax_declaration_data
GenerateTaxRow ==
    /\ call = Idle
    /\ \E g \in GrossIncomes, dr \in DeductionRates, y \in YearsAgo, turn \in YearTurns,
          st \in BOOLEAN, cc \in BOOLEAN, ff \in BOOLEAN :
         /\ call' = [op |-> "generate_tax_declaration_data", gross_income |-> g,
                     deduction_rate |-> dr]
         /\ result' = Returned(generate_tax_declaration_data(g, dr, y, turn[1], turn[2],
                                                             st, cc, ff))
    /\ UNCHANGED <<persistence, services, previous, warnings, inflight>>

\* one iteration of the loop of generate_bank_statement_data
GenerateBankRow ==
    /\ call = Idle
    /\ \E pm \in PeriodMonths, ob \in OpeningBalances, mc \in MonthlyCredits,
          er \in ExpenseRatios, hd \in BOOLEAN, reg \in BOOLEAN :
         \E inc \in 0..pm :
             /\ call' = [op |-> "generate_bank_statement_data", opening_balance |-> ob,
                         monthly_credits |-> mc, expense_ratio |-> er]
             /\ result' = Returned(generate_bank_statement_data(pm, ob, mc, er, inc, hd, reg))
    /\ UNCHANGED <<persistence, services, previous, warnings, inflight>>

Return ==
    /\ call # Idle
    /\ call' = Idle
    /\ result' = NoResult
    /\ UNCHANGED <<persistence, services, previous, warnings, inflight>>

\* the first of two successive calls returns and is remembered
ReturnRecorded ==
    /\ call # Idle
    /\ previous = NoPrevious
    /\ call' = Idle
    /\ result' = NoResult
    /\ previous' = [call |-> call, result |-> result]
    /\ UNCHANGED <<persistence, services, warnings, inflight>>

\* evaluate_creditworthiness on the documents of successive evaluations
EvaluateCreditworthinessAgain ==
    /\ call = Idle
    /\ \E documents \in PairDocLists, mp \in PairPayments :
         /\ call' = [op |-> "evaluate_creditworthiness", documents |-> documents,
                     requested_credit |-> 0, monthly_payment |-> mp]
         /\ result' = evaluate_creditworthiness(documents, 0, mp)
    /\ UNCHANGED <<persistence, services, previous, warnings, inflight>>

\* calculate_overall_creditworthiness on the documents of successive evaluations
CalculateOverallCreditworthinessAgain ==
    /\ call = Idle
    /\ \E documents \in PairAnalyzerDocuments, mp \in {0, 300000}, now \in Clock :
         /\ call' = [op |-> "calculate_overall_creditworthiness", documents |-> documents,
                     requested_credit |-> 0, monthly_payment |-> mp]
         /\ result' = calculate_overall_creditworthiness(documents, 0, mp, now)
    /\ UNCHANGED <<persistence, services, previous, warnings, inflight>>

\* ---- predict_* and score_* called concurrently.  A call is followed through
\* its reads of the service: the availability test at the top of the method,
\* then the run of the model, which reads the estimators, the scaler and the
\* feature columns.
PredictOp == [cin |-> "predict_cin_document", payslip |-> "predict_payslip_document",
              tax |-> "predict_tax_document", bank |-> "predict_bank_statement_document"]
ScoreOp == [cin |-> "score_cin", payslip |-> "score_payslip", tax |-> "score_tax",
            bank |-> "score_bank"]

KindFeatures(kind) ==
    IF kind = "cin" THEN CinFeatures
    ELSE IF kind = "payslip" THEN PayslipFeatures
    ELSE IF kind = "tax" THEN TaxFeatures
    ELSE BankFeatures

\* one complete feature dict per kind, and the empty one for the CIN
ConcurrentFeatures(kind) ==
    { CHOOSE f \in KindFeatures(kind) : FeatureColumns(kind) \subseteq DOMAIN f }
    \cup (IF kind = "cin" THEN { <<>> } ELSE {})

ConcurrentCalls(dir) ==
    UNION { { [service |-> "MLModelService", op |-> PredictOp[k], kind |-> k,
               features |-> f, outcome |-> o]
                : f \in ConcurrentFeatures(k),
                  o \in { x \in ModelOutcomes(dir) : x.raises \/ x.prediction.score = 86800 } }
            \cup { [service |-> "DocumentScoringService", op |-> ScoreOp[k], kind |-> k,
                     features |-> f, outcome |-> o]
                : f \in ConcurrentFeatures(k),
                  o \in { x \in RegressorOutcomes : x.raises \/ x.score = 53200 } }
            : k \in Kinds }

\* a caller enters predict_*_document or score_*
Enter(c) ==
    /\ call = Idle
    /\ inflight[c] = NotCalling
    /\ \E r \in ConcurrentCalls(model_dir) :
         inflight' = [inflight EXCEPT ![c] = [pc |-> "entered", call |-> r]]
    /\ UNCHANGED <<call, result, persistence, services, previous, warnings>>

\* the test at the top of the method: self.model_loaded, or kind in self.models;
\* the unavailable branch returns the fallback, score_* after logging
CheckAvailable(c) ==
    /\ inflight[c].pc = "entered"
    /\ LET r == inflight[c].call
           available == IF r.service = "MLModelService" THEN model_loaded
                        ELSE r.kind \in models
           logged == IF r.service = "MLModelService" THEN 0
                     ELSE score_warnings(r.kind, models)
       IN  /\ warnings + logged <= MaxWarnings
           /\ warnings' = warnings + logged
           /\ inflight' = [inflight EXCEPT ![c] =
                 IF available THEN [pc |-> "available", call |-> r]
                 ELSE [pc |-> "returned", call |-> r,
                       result |-> IF r.service = "MLModelService"
                                  THEN Returned(_fallback_analysis(r.kind, r.features))
                                  ELSE Returned(_fallback_score(r.kind, r.features))]]
    /\ UNCHANGED <<call, result, persistence, services, previous>>

\* the try block with a failing model switching the service to its fallback
RunModel_disabling(c) ==
    /\ inflight[c].pc = "available"
    /\ LET r == inflight[c].call
       IN  /\ inflight' = [inflight EXCEPT ![c] =
                 [pc |-> "returned", call |-> r,
                  result |-> IF r.service = "MLModelService"
                             THEN predict_document(r.kind, r.features, TRUE, r.outcome)
                             ELSE score_document(r.kind, r.features, models, scalers,
                                                 features, r.outcome)]]
           /\ model_loaded' = IF r.service = "MLModelService" /\ r.outcome.raises
                              THEN FALSE ELSE model_loaded
    /\ UNCHANGED <<call, result, persistence, model_dir, models_dir, models, scalers, features,
                   previous, warnings>>

\* the try block: the model is run on the features, an exception gives the
\* fallback
RunModel(c) ==
    /\ inflight[c].pc = "available"
    /\ LET r == inflight[c].call
       IN  inflight' = [inflight EXCEPT ![c] =
                 [pc |-> "returned", call |-> r,
                  result |-> IF r.service = "MLModelService"
                             THEN predict_document(r.kind, r.features, TRUE, r.outcome)
                             ELSE score_document(r.kind, r.features, models, scalers,
                                                 features, r.outcome)]]
    /\ UNCHANGED <<call, result, persistence, services, previous, warnings>>

\* the caller has its result
Leave(c) ==
    /\ inflight[c].pc = "returned"
    /\ inflight' = [inflight EXCEPT ![c] = NotCalling]
    /\ UNCHANGED <<call, result, persistence, services, previous, warnings>>

\* ---- saving and loading the models
\* save_model, save: the training process writes its object to the directory
SaveModel ==
    /\ call = Idle
    /\ call' = [op |-> "save_model"]
    /\ model_files' = Save(trainer)
    /\ result' = Returned(None)
    /\ UNCHANGED <<trainer, loader, services, previous, warnings, inflight>>

\* load_model, load on a fresh object; joblib.load raises on an empty
\* directory before anything is assigned
LoadModel ==
    /\ call = Idle
    /\ call' = [op |-> "load_model"]
    /\ IF model_files = NoFiles
       THEN /\ loader' = Fresh(trainer)
            /\ result' = Raised("FileNotFoundError")
       ELSE /\ loader' = Load(Fresh(trainer), model_files)
            /\ result' = Returned(None)
    /\ UNCHANGED <<trainer, model_files, services, previous, warnings, inflight>>

\* predict_document, predict on the trained object or on the loaded one
PredictDocument ==
    /\ call = Idle
    /\ \E object \in {"trainer", "loader"}, t \in {"CIN", "PAY_SLIP"} :
         \E f \in PersistFeatures(t) :
             /\ call' = [op |-> "predict_document", object |-> object, features |-> f,
                         document_type |-> t]
             /\ result' = Predict(IF object = "trainer" THEN trainer ELSE loader, f, t)
    /\ UNCHANGED <<persistence, services, previous, warnings, inflight>>

\* the services as constructed in a deployment without trained artifacts
Init ==
    /\ call = Idle
    /\ result = NoResult
    /\ model_dir = "missing"
    /\ model_loaded = _load_model(model_dir)
    /\ models_dir = [k \in Kinds |-> "no_model"]
    /\ models = _load_all_models(models_dir).models
    /\ scalers = _load_all_models(models_dir).scalers
    /\ features = _load_all_models(models_dir).features
    /\ previous = NoPrevious
    /\ warnings = load_warnings(model_dir, models_dir)
    /\ inflight = [c \in Callers |-> NotCalling]
    /\ trainer = DocumentAnalysisModel
    /\ model_files = NoFiles
    /\ loader = DocumentAnalysisModel

Next ==
    \/ EvaluateCreditworthiness
    \/ CalculateOverallCreditworthiness
    \/ AnalyzeDocument
    \/ AnalyzeSingleDocument
    \/ EvaluateCreditworthinessEndpoint
    \/ Return

Spec == Init /\ [][Next]_vars

\* the model services and the generator, started on any artifact directory
InitModels ==
    /\ call = Idle
    /\ result = NoResult
    /\ model_dir \in ModelDirStates
    /\ model_loaded = _load_model(model_dir)
    /\ models_dir \in ModelsDirs
    /\ models = _load_all_models(models_dir).models
    /\ scalers = _load_all_models(models_dir).scalers
    /\ features = _load_all_models(models_dir).features
    /\ previous = NoPrevious
    /\ warnings = load_warnings(model_dir, models_dir)
    /\ inflight = [c \in Callers |-> NotCalling]
    /\ trainer = DocumentAnalysisModel
    /\ model_files = NoFiles
    /\ loader = DocumentAnalysisModel

NextModels ==
    \/ PredictCinDocument
    \/ PredictPayslipDocument
    \/ PredictTaxDocument
    \/ PredictBankStatementDocument
    \/ ScoreCin
    \/ ScorePayslip
    \/ ScoreTax
    \/ ScoreBank
    \/ GenerateCinRow
    \/ GeneratePayslipRow
    \/ GenerateTaxRow
    \/ GenerateBankRow
    \/ Return

SpecModels == InitModels /\ [][NextModels]_vars

\* concurrent callers of the model services, started on any artifact directory
NextConcurrent ==
    \/ \E c \in Callers : Enter(c)
    \/ \E c \in Callers : CheckAvailable(c)
    \/ \E c \in Callers : RunModel(c)
    \/ \E c \in Callers : Leave(c)

SpecConcurrent == InitModels /\ [][NextConcurrent]_vars

\* a training process with any trained or untrained object, and a process
\* loading what it saved
InitPersist ==
    /\ call = Idle
    /\ result = NoResult
    /\ model_dir = "missing"
    /\ model_loaded = _load_model(model_dir)
    /\ models_dir = [k \in Kinds |-> "no_model"]
    /\ models = _load_all_models(models_dir).models
    /\ scalers = _load_all_models(models_dir).scalers
    /\ features = _load_all_models(models_dir).features
    /\ previous = NoPrevious
    /\ warnings = load_warnings(model_dir, models_dir)
    /\ inflight = [c \in Callers |-> NotCalling]
    /\ trainer \in TrainedModels \cup {DocumentAnalysisModel}
    /\ model_files = NoFiles
    /\ loader = Fresh(trainer)

NextPersist ==
    \/ SaveModel
    \/ LoadModel
    \/ PredictDocument
    \/ Return

SpecPersist == InitPersist /\ [][NextPersist]_vars

\* successive evaluations by the aggregators
NextPairs ==
    \/ EvaluateCreditworthinessAgain
    \/ CalculateOverallCreditworthinessAgain
    \/ ReturnRecorded
    \/ Return

SpecPairs == Init /\ [][NextPairs]_vars

\* ------------------------------------------------------------- properties
Aggregators == {"evaluate_creditworthiness", "calculate_overall_creditworthiness"}
Rejected == {"Rejected", "REJECTED"}

\* monthly income the scorer derives from the documents of the call
ScorerIncome == calculate_income_score(call.documents)

\* C1: an aggregator called with no documents raises nothing and returns
\* overall_score 0 with the decision rejected, whatever the requested credit
\* and the monthly payment.
C1_EmptyAggregation ==
    (call.op \in Aggregators /\ DOMAIN call.documents = {})
        => /\ ~result.raised
           /\ result.ret.overall_score = 0
           /\ result.ret.decision \in Rejected

C1_Witness ==
    /\ call.op = "evaluate_creditworthiness"
    /\ call.documents = <<>>
    /\ call.monthly_payment > 0
    /\ ~result.raised
    /\ result.ret.decision = "Rejected"

\* the debt-to-income ratio of the call exceeds 40%, with monthly_income > 0
DebtAboveMax ==
    \/ /\ call.op = "evaluate_creditworthiness"
       /\ ScorerIncome.income_num > 0
       /\ call.monthly_payment * 100 * ScorerIncome.income_den > 40 * ScorerIncome.income_num
    \/ /\ call.op = "calculate_overall_creditworthiness"
       /\ ~result.raised
       /\ result.ret.monthly_income > 0
       /\ call.monthly_payment * 100 > 40 * result.ret.monthly_income

\* C2: whenever the debt-to-income ratio exceeds 40% the aggregator's decision
\* is rejected, whatever the overall score and the component scores.
C2_DebtGate ==
    (call.op \in Aggregators /\ DebtAboveMax)
        => ~result.raised /\ result.ret.decision \in Rejected

InRange(x, lo, hi) == lo <= x /\ x <= hi

\* C3: every score an aggregator or an analysis returns lies in [0,100].
C3_ScoresInRange ==
    /\ (call.op = "evaluate_creditworthiness" /\ ~result.raised)
         => /\ InRange(result.ret.overall_score, 0, 10000)
            /\ InRange(result.ret.income_score, 0, 10000)
            /\ InRange(result.ret.consistency_score, 0, 10000)
            /\ InRange(result.ret.debt_ratio_score, 0, 10000)
            /\ InRange(result.ret.document_quality_score, 0, 10000)
    /\ (call.op = "calculate_overall_creditworthiness" /\ ~result.raised)
         => InRange(result.ret.overall_score, 0, 1000)
    /\ (call.op = "analyze_document" /\ ~result.raised)
         => InRange(result.ret.score, 0, 100)

\* the text of the call's PDF cannot be extracted, or is empty or too short
NoText == ~call.pdf.readable \/ call.pdf.text.len < 50

\* C7: a document whose text could not be extracted is never scored: the
\* analysis raises, or returns INVALID with score 0, confidence 0 and an
\* unreadable-document issue.
C7_NoScoreWithoutText ==
    /\ (call.op = "analyze_document" /\ NoText)
         => \/ result.raised
            \/ /\ result.ret.status = "invalid"
               /\ result.ret.score = 0
               /\ result.ret.confidence = 0
               /\ result.ret.validation_issues # <<>>
    /\ (call.op = "analyze_single_document" /\ NoText)
         => \/ result.raised
            \/ ~result.ret.valid

\* C9: with a monthly income of 0 the reported debt-to-income ratio is 0 (the
\* scorer) or null (the analyzer) and nothing is raised, whatever the payment.
C9_ZeroIncomeRatio ==
    /\ (call.op = "evaluate_creditworthiness" /\ ScorerIncome.income_num = 0)
         => ~result.raised /\ result.ret.debt_to_income_ratio = 0
    /\ (call.op = "calculate_overall_creditworthiness")
         => /\ ~result.raised
            /\ result.ret.monthly_income = 0 => result.ret.debt_to_income_ratio.is_none

C9_Witness ==
    /\ call.op = "evaluate_creditworthiness"
    /\ call.documents # <<>>
    /\ ScorerIncome.income_num = 0
    /\ call.monthly_payment > 0
    /\ ~result.raised
    /\ result.ret.debt_to_income_ratio = 0

\* the bucket table of the aggregator, on a ratio in hundredths of a percent
BucketOfRatio(r) ==
    IF r <= 2500 THEN 100
    ELSE IF r <= 3300 THEN 80
    ELSE IF r <= 4000 THEN 60
    ELSE IF r <= 5000 THEN 40
    ELSE 20

\* C10 as stated: debt_ratio_score is the bucket value of the reported
\* debt_to_income_ratio, the ratio being 0 when income <= 0.
C10_BucketOfReported ==
    (call.op = "evaluate_creditworthiness" /\ ~result.raised)
        => result.ret.debt_ratio_score = 100 * BucketOfRatio(result.ret.debt_to_income_ratio)

\* C10 amended: for monthly_income > 0 debt_ratio_score is the bucket value of
\* the unrounded ratio payment / income * 100 and the reported ratio is that
\* ratio rounded to two decimals; for monthly_income <= 0 both are 0.
C10_DebtRatioBuckets ==
    (call.op = "evaluate_creditworthiness")
        => LET num == call.monthly_payment * 100 * ScorerIncome.income_den
               den == ScorerIncome.income_num
           IN  /\ ~result.raised
               /\ den > 0 =>
                    /\ result.ret.debt_to_income_ratio = Round2(num, den)
                    /\ num <= 25 * den => result.ret.debt_ratio_score = 10000
                    /\ (25 * den < num /\ num <= 33 * den) => result.ret.debt_ratio_score = 8000
                    /\ (33 * den < num /\ num <= 40 * den) => result.ret.debt_ratio_score = 6000
                    /\ (40 * den < num /\ num <= 50 * den) => result.ret.debt_ratio_score = 4000
                    /\ num > 50 * den => result.ret.debt_ratio_score = 2000
               /\ den <= 0 =>
                    /\ result.ret.debt_to_income_ratio = 0
                    /\ result.ret.debt_ratio_score = 0

\* payment 3000 on income 10000: ratio 30, score 80
C10_Witness ==
    /\ call.op = "evaluate_creditworthiness"
    /\ call.monthly_payment = 3000
    /\ ScorerIncome.income_num = 10000 * ScorerIncome.income_den
    /\ ~result.raised
    /\ result.ret.debt_to_income_ratio = 3000
    /\ result.ret.debt_ratio_score = 8000

\* ---- rule-based results of the model services and the generator
PredictOps == {"predict_cin_document", "predict_payslip_document", "predict_tax_document",
               "predict_bank_statement_document"}
ScoreOps == {"score_cin", "score_payslip", "score_tax", "score_bank"}

\* a predict_* call that took the rule-based path
RuleBasedPrediction ==
    /\ call # Idle
    /\ call.op \in PredictOps
    /\ (~model_loaded \/ call.outcome.raises)

\* a score_* call that took the rule-based path
RuleBasedScore ==
    /\ call # Idle
    /\ call.op \in ScoreOps
    /\ \/ call.kind \notin models
       \/ call.kind \notin features
       \/ call.kind \notin scalers
       \/ ~(FeatureColumns(call.kind) \subseteq DOMAIN call.features)
       \/ call.outcome.raises

\* C4: a pay slip whose amounts_match is false has the rule-based status
\* INVALID, whatever its other features: in the rule-based result of
\* predict_payslip_document and in the rows of the generator.
C4_AmountsMismatchInvalid ==
    /\ (RuleBasedPrediction /\ call.op = "predict_payslip_document"
          /\ "amounts_match" \in DOMAIN call.features /\ ~call.features.amounts_match)
        => (~result.raised /\ result.ret.status = "INVALID")
    /\ (call # Idle /\ call.op = "generate_payslip_data" /\ ~result.ret.amounts_match)
        => result.ret.status = "INVALID"

\* C5: a CIN whose is_expired is true has the rule-based status INVALID,
\* whatever its other features: in the rule-based result of
\* predict_cin_document and in the rows of the generator.
C5_ExpiredCinInvalid ==
    /\ (RuleBasedPrediction /\ call.op = "predict_cin_document"
          /\ "is_expired" \in DOMAIN call.features /\ call.features.is_expired)
        => (~result.raised /\ result.ret.status = "INVALID")
    /\ (call # Idle /\ call.op = "generate_cin_data" /\ result.ret.is_expired)
        => result.ret.status = "INVALID"

\* an expired CIN that is otherwise flawless went through the rule-based path
C5_Witness ==
    /\ RuleBasedPrediction
    /\ call.op = "predict_cin_document"
    /\ DOMAIN call.features = FeatureColumns("cin")
    /\ call.features.is_expired
    /\ call.features.ocr_confidence = 9200
    /\ call.features.has_photo /\ call.features.text_legible /\ call.features.correct_format
    /\ result.ret.status = "INVALID"

\* the weighted formulas of the generator over a complete feature set, in
\* thousandths of a point
CinFormula(f) ==
    4 * f.ocr_confidence + 3 * f.image_quality
    + (IF ~f.is_expired THEN 20000 ELSE 0)
    + (IF f.has_photo THEN 5000 ELSE 0)
    + (IF f.text_legible THEN 5000 ELSE 0)

PayslipFormula(f) ==
    Min(60000, 2 * f.net_salary)
    + (IF f.has_company_stamp THEN 8000 ELSE 0)
    + (IF f.amounts_match THEN 12000 ELSE 0)
    + (IF f.has_required_fields THEN 12000 ELSE 0)
    + (8 * f.salary_consistency) \div 10

CinScenario ==
    [is_expired |-> FALSE, ocr_confidence |-> 9200, image_quality |-> 8800,
     has_photo |-> TRUE, text_legible |-> TRUE, correct_format |-> TRUE]

PayslipScenario ==
    [gross_salary |-> 8500, net_salary |-> 7200, total_deductions |-> 1300,
     has_company_stamp |-> TRUE, amounts_match |-> TRUE, has_required_fields |-> TRUE,
     salary_consistency |-> 8500, months_since_issue |-> 1]

\* C6: on a complete feature set the rule-based score of a CIN and of a pay
\* slip is the weighted formula of the generator; the CIN scenario scores 86.8
\* and the pay slip scenario 53.2.
C6_RuleBasedFormula ==
    (RuleBasedPrediction \/ RuleBasedScore) =>
        /\ ~result.raised
        /\ LET score == IF call.op \in ScoreOps THEN result.ret ELSE result.ret.score
               f     == call.features
           IN  /\ (call.kind = "cin" /\ DOMAIN f = FeatureColumns("cin"))
                    => score = CinFormula(f)
               /\ (call.kind = "payslip" /\ DOMAIN f = FeatureColumns("payslip")
                      /\ f.net_salary >= 0)
                    => score = PayslipFormula(f)
               /\ (call.kind = "cin" /\ f = CinScenario) => score = 86800
               /\ (call.kind = "payslip" /\ f = PayslipScenario) => score = 53200

ReturnedWeightedSum ==
    35 * result.ret.income_score + 25 * result.ret.consistency_score
    + 30 * result.ret.debt_ratio_score + 10 * result.ret.document_quality_score

\* C11 as stated: the overall_score of an assessment is exactly the weighted
\* sum 0.35 income + 0.25 consistency + 0.30 debt ratio + 0.10 quality of the
\* component scores the assessment returns, and the weights sum to 1.
C11_ExactWeightedSum ==
    (call.op = "evaluate_creditworthiness" /\ ~result.raised)
        => /\ 100 * result.ret.overall_score = ReturnedWeightedSum
           /\ SumSeq(Weights) = 100

\* C11 amended: overall_score is the weighted sum of the unrounded component
\* scores rounded to two decimals, so that it lies within 0.01 of the weighted
\* sum of the returned (rounded) component scores; the weights sum to 1.
C11_WeightedOverall ==
    (call.op = "evaluate_creditworthiness")
        => LET docs  == call.documents
               n     == Len(docs)
               N     == IF n = 0 THEN 1 ELSE n
               inc   == ScorerIncome
               cons  == calculate_consistency_score(docs)
               debt  == calculate_debt_ratio_score(inc.income_num, inc.income_den,
                                                   call.monthly_payment)
               \* the four components in hundredths over N
               incH  == 100 * inc.income_score * N
               consH == IF n = 0 THEN 0 ELSE cons.num
               debtH == 100 * debt.score * N
               qualH == IF n = 0 THEN 0 ELSE 100 * SumSeq([i \in 1..n |-> docs[i].score])
               diff  == 100 * result.ret.overall_score - ReturnedWeightedSum
           IN  /\ ~result.raised
               /\ SumSeq(Weights) = 100
               /\ result.ret.overall_score
                    = RoundDiv(35 * incH + 25 * consH + 30 * debtH + 10 * qualH, 100 * N)
               /\ -100 <= diff /\ diff <= 100

\* an assessment of two documents whose weighted sum has more than two decimals
C11_Witness ==
    /\ call.op = "evaluate_creditworthiness"
    /\ Len(call.documents) = 2
    /\ ~result.raised
    /\ result.ret.overall_score > 0
    /\ 100 * result.ret.overall_score # ReturnedWeightedSum

\* ---- two successive evaluations
ScorerComponents ==
    {"income_score", "consistency_score", "debt_ratio_score", "document_quality_score"}

\* two successive evaluations by DocumentCreditScorer have both returned
TwoAssessments ==
    /\ call.op = "evaluate_creditworthiness"
    /\ previous.call.op = "evaluate_creditworthiness"
    /\ ~result.raised
    /\ ~previous.result.raised

\* C12: when the component scores of two assessments differ in exactly one
\* component, the overall_score of the one with the higher component is not
\* the lower of the two.
C12_Monotone ==
    TwoAssessments =>
        LET a == previous.result.ret
            b == result.ret
            differing == {c \in ScorerComponents : a[c] # b[c]}
        IN  Cardinality(differing) = 1 =>
                \A c \in differing :
                    /\ a[c] < b[c] => a.overall_score <= b.overall_score
                    /\ a[c] > b[c] => a.overall_score >= b.overall_score

\* two assessments that differ in the document quality alone, the second
\* with the higher quality and the higher overall score
C12_Witness ==
    /\ TwoAssessments
    /\ {c \in ScorerComponents : previous.result.ret[c] # result.ret[c]}
         = {"document_quality_score"}
    /\ previous.result.ret.document_quality_score < result.ret.document_quality_score
    /\ previous.result.ret.overall_score < result.ret.overall_score

\* ---- rating of DocumentCreditScorer
\* rating, decision and risk level the thresholds assign to a score in hundredths
RatingOfReturned(score) ==
    IF score >= 8000 THEN <<"Excellent", "Approved", "Low">>
    ELSE IF score >= 6500 THEN <<"Good", "Approved", "Low">>
    ELSE IF score >= 5000 THEN <<"Fair", "Review", "Medium">>
    ELSE IF score >= 3500 THEN <<"Poor", "Review", "High">>
    ELSE <<"Rejected", "Rejected", "High">>

\* C13: in every assessment of DocumentCreditScorer the rating, the decision
\* and the risk level are those the thresholds 80 / 65 / 50 / 35 assign to the
\* overall_score the assessment returns.
C13_RatingOfReturned ==
    (call.op = "evaluate_creditworthiness" /\ ~result.raised)
        => <<result.ret.rating, result.ret.decision, result.ret.risk_level>>
             = RatingOfReturned(result.ret.overall_score)

\* ---- eligibility gate of DocumentAnalyzer
\* C14: an assessment is eligible only with overall_score >= 60 and
\* monthly_income >= 3000 MAD; when either fails it is not eligible, the
\* decision is REJECTED and the reason names a condition that failed.
C14_EligibilityGate ==
    (call.op = "calculate_overall_creditworthiness")
        => /\ ~result.raised
           /\ LET r         == result.ret
                  scoreOk   == r.overall_score >= 600
                  incomeOk  == r.monthly_income >= 300000
              IN  /\ r.is_eligible => (scoreOk /\ incomeOk)
                  /\ ~(scoreOk /\ incomeOk) =>
                        /\ ~r.is_eligible
                        /\ r.decision = "REJECTED"
                        /\ \/ r.decision_reason = "Insufficient monthly income" /\ ~incomeOk
                           \/ r.decision_reason = "Overall score too low" /\ ~scoreOk

\* an applicant with sufficient income is rejected for the score alone
C14_Witness ==
    /\ call.op = "calculate_overall_creditworthiness"
    /\ ~result.raised
    /\ result.ret.monthly_income >= 300000
    /\ result.ret.overall_score < 600
    /\ result.ret.overall_score > 0
    /\ ~result.ret.is_eligible
    /\ result.ret.decision = "REJECTED"
    /\ result.ret.decision_reason = "Overall score too low"

\* ---- purity of the assessment
\* C15: two evaluations of an aggregator on the same documents, requested
\* credit and monthly payment return assessments equal in every field.
C15_PureAssessment ==
    (call.op \in Aggregators /\ previous.call = call)
        => result = previous.result

\* ---- model state under prediction
\* what a call returns when it runs alone on the services as constructed
AloneResult(r) ==
    IF r.service = "MLModelService"
    THEN predict_document(r.kind, r.features, _load_model(model_dir), r.outcome)
    ELSE LET loaded == _load_all_models(models_dir)
         IN  score_document(r.kind, r.features, loaded.models, loaded.scalers,
                            loaded.features, r.outcome)

ReturnsAsAlone ==
    \A c \in Callers :
        inflight[c].pc = "returned" => inflight[c].result = AloneResult(inflight[c].call)

\* C16: no step of a predict_* or score_* call changes the loaded model state
\* (the loaded flag, the models, scalers and feature-column lists), and under
\* every interleaving of concurrent calls each call returns what it returns
\* when run alone.
C16_PredictionReadsOnly == [][UNCHANGED services]_vars /\ []ReturnsAsAlone

\* two calls are inside the services at once, one has returned the model's
\* prediction and the other the fallback
C16_Witness ==
    /\ inflight["c1"].pc = "returned" /\ inflight["c2"].pc = "returned"
    /\ inflight["c1"].call.service = "MLModelService"
    /\ inflight["c1"].call.outcome.raises
    /\ inflight["c2"].call.service = "MLModelService"
    /\ ~inflight["c2"].call.outcome.raises
    /\ inflight["c2"].result = Returned(inflight["c2"].call.outcome.prediction)

\* ---- saved and loaded models
\* C17: an object loaded from the files a model was saved to holds the state
\* prediction reads (estimators, scaler parameters, feature-column order,
\* label encoding, trained flag) as the saved model holds it, and returns for
\* every feature dict the status and score the saved model returns.
C17_SaveLoadRoundTrip ==
    loader # Fresh(trainer) =>
        /\ loader = trainer
        /\ \A t \in {"CIN", "PAY_SLIP"} : \A f \in PersistFeatures(t) :
               Predict(loader, f, t) = Predict(trainer, f, t)
        /\ (call.op = "predict_document" /\ call.object = "loader")
               => result = Predict(trainer, call.features, call.document_type)

\* a loaded model has returned a prediction
C17_Witness ==
    /\ call.op = "predict_document"
    /\ call.object = "loader"
    /\ loader # Fresh(trainer)
    /\ ~result.raised

\* ---- warnings of an unavailable model
\* C18: on services whose model is unavailable the 'model not available'
\* warning is logged once, when the service is constructed: whatever
\* prediction and scoring calls follow, no further warning is logged.
C18_WarningLoggedOnce == warnings = load_warnings(model_dir, models_dir)

\* ---- labels of the generated rows
\* the decision tree of each kind over the values a row stores: confidences,
\* qualities and consistencies in thousandths, balances in hundredths
StatusOfRow(row) ==
    IF row.document_type = "CIN"
    THEN IF row.is_expired \/ row.ocr_confidence < 500 \/ ~row.has_photo \/ ~row.text_legible
         THEN "INVALID"
         ELSE IF row.ocr_confidence < 650 \/ row.image_quality < 600 \/ ~row.correct_format
         THEN "SUSPICIOUS"
         ELSE "VALID"
    ELSE IF row.document_type = "PAY_SLIP"
    THEN IF ~row.amounts_match \/ ~row.has_required_fields THEN "INVALID"
         ELSE IF ~row.has_company_stamp \/ row.salary_consistency < 600 THEN "SUSPICIOUS"
         ELSE IF row.months_since_issue > 3 THEN "INCOMPLETE"
         ELSE "VALID"
    ELSE IF row.document_type = "TAX_DECLARATION"
    THEN IF ~row.calculations_correct \/ ~row.all_fields_filled THEN "INVALID"
         ELSE IF ~row.has_official_stamp \/ ~row.income_reasonable THEN "SUSPICIOUS"
         ELSE IF row.years_since_declaration > 2 THEN "INCOMPLETE"
         ELSE "VALID"
    ELSE IF ~row.balances_match \/ ~row.has_bank_header THEN "INVALID"
         ELSE IF row.closing_balance < 0 \/ row.low_balance_incidents > 2
                 \/ ~row.regular_income
         THEN "SUSPICIOUS"
         ELSE IF row.period_months < 3 THEN "INCOMPLETE"
         ELSE "VALID"

GeneratorOps ==
    {"generate_cin_data", "generate_payslip_data", "generate_tax_declaration_data",
     "generate_bank_statement_data"}

\* C19: the status label of every generated row, of each of the four kinds,
\* is the one the decision tree of its kind gives on the feature values the
\* row stores, INVALID before SUSPICIOUS before INCOMPLETE before VALID.
C19_LabelOfStoredFeatures ==
    call.op \in GeneratorOps => result.ret.status = StatusOfRow(result.ret)

\* ---- missing features
\* the feature dict of a kind with every field 0 or false
ZeroFeatures(kind) ==
    [c \in FeatureColumns(kind) |-> IF c \in BoolColumns THEN FALSE ELSE 0]

\* C20: the rule-based scorers treat a missing feature as 0 or false: on the
\* empty feature dict score_* and predict_* return what they return on the
\* dict that holds 0 or false in every field.
C20_MissingIsZero ==
    /\ (RuleBasedScore /\ call.features = <<>>)
          => result = Returned(_fallback_score(call.kind, ZeroFeatures(call.kind)))
    /\ (RuleBasedPrediction /\ call.features = <<>>)
          => result = Returned(_fallback_analysis(call.kind, ZeroFeatures(call.kind)))

\* ---- the response of the evaluation endpoint
EndpointFields ==
    {"overall_score", "rating", "decision", "risk_level", "monthly_income", "debt_ratio",
     "income_score", "consistency_score", "debt_ratio_score", "document_quality_score"}

\* C21: a successful response of /documents/evaluate-creditworthiness holds
\* the fields overall_score, rating, decision, risk_level, monthly_income,
\* debt_ratio, income_score, consistency_score, debt_ratio_score and
\* document_quality_score, whatever the documents submitted.
C21_ResponseFields ==
    (call.op = "evaluate_creditworthiness_endpoint" /\ ~result.raised)
        => EndpointFields \subseteq DOMAIN result.ret

\* ---- missing documents
\* the pay slips and tax declarations submitted with the evaluation in `call`
SubmittedPaySlips ==
    IF call.op = "evaluate_creditworthiness"
    THEN Len(OfType(call.documents, "pay_slip"))
    ELSE IF call.op = "calculate_overall_creditworthiness"
    THEN (IF "PAY_SLIP" \in DOMAIN call.documents THEN Len(call.documents["PAY_SLIP"]) ELSE 0)
    ELSE Cardinality({i \in 1..3 : call.pay_slips[i] # None})

SubmittedTaxDeclarations ==
    IF call.op = "evaluate_creditworthiness"
    THEN Len(OfType(call.documents, "tax_declaration"))
    ELSE IF call.op = "calculate_overall_creditworthiness"
    THEN (IF "TAX_DECLARATION" \in DOMAIN call.documents THEN 1 ELSE 0)
    ELSE (IF call.tax_declaration # None THEN 1 ELSE 0)

Evaluations == Aggregators \cup {"evaluate_creditworthiness_endpoint"}

\* C22: the result of an evaluation lists the pay slips as missing exactly
\* when fewer than 2 were submitted and the tax declaration exactly when none
\* was submitted.
C22_MissingDocuments ==
    (call.op \in Evaluations /\ ~result.raised)
        => /\ "missing_documents" \in DOMAIN result.ret
           /\ ("Pay slips" \in Range(result.ret.missing_documents))
                 <=> (SubmittedPaySlips < 2)
           /\ ("Tax declaration" \in Range(result.ret.missing_documents))
                 <=> (SubmittedTaxDeclarations < 1)

\* the same, of the evaluation by DocumentCreditScorer alone
C22_ScorerMissingDocuments ==
    (call.op = "evaluate_creditworthiness" /\ ~result.raised)
        => /\ ("Pay slips" \in Range(result.ret.missing_documents))
                 <=> (SubmittedPaySlips < 2)
           /\ ("Tax declaration" \in Range(result.ret.missing_documents))
                 <=> (SubmittedTaxDeclarations < 1)

\* ---- amount extraction
\* the patterns of a list whose capture in the text converts to a number
NumericMatches(text, patterns) ==
    {i \in 1..Len(patterns) : Captured(text, patterns[i]) /\ CaptureParses(text, patterns[i])}

\* the value of the first of them, or the default when there is none
FirstNumericMatch(text, patterns, default) ==
    LET numeric == NumericMatches(text, patterns)
    IN  IF numeric = {} THEN default
        ELSE CaptureValue(text, patterns[CHOOSE i \in numeric : \A j \in numeric : i <= j])

AmountsExtracted ==
    /\ call.op = "analyze_single_document"
    /\ call.pdf.readable
    /\ call.document_type \in {"PAY_SLIP", "TAX_DECLARATION", "BANK_STATEMENT"}

\* C23: every amount of an analysis is the converted capture of the first
\* pattern, in list order, whose capture is numeric once commas and spaces are
\* removed, and the default of its field (gross salary 10000.00, net salary
\* 8000.00, ...) when no pattern has one; amount extraction raises nothing.
C23_ExtractAmount ==
    AmountsExtracted =>
        LET text == call.pdf.text
            ret  == result.ret
        IN  /\ ~result.raised
            /\ call.document_type = "PAY_SLIP" =>
                  /\ ret.valid
                  /\ ret.gross_salary
                       = FirstNumericMatch(text, <<"Brut", "amount MAD">>, 1000000)
                  /\ ret.net_salary = FirstNumericMatch(text, <<"Net">>, 800000)
                  /\ ret.deductions.cnss = FirstNumericMatch(text, <<"CNSS">>, 0)
            /\ call.document_type = "TAX_DECLARATION" =>
                  /\ ret.valid
                  /\ ret.annual_income = FirstNumericMatch(text, <<"Revenu Global">>, 12000000)
                  /\ ret.taxable_income
                       = FirstNumericMatch(text, <<"Revenu Imposable">>, 9600000)
                  /\ ret.tax_paid = FirstNumericMatch(text, <<"Impot">>, 500000)
            /\ (call.document_type = "BANK_STATEMENT" /\ ret.valid) =>
                  ret.final_balance = FirstNumericMatch(text, <<"Solde">>, 1500000)

\* a pay slip whose first gross pattern captures no number and whose second
\* does, and which has no net line: the second capture and the default
C23_Witness ==
    /\ AmountsExtracted
    /\ call.document_type = "PAY_SLIP"
    /\ Captured(call.pdf.text, "Brut") /\ ~CaptureParses(call.pdf.text, "Brut")
    /\ ~Captured(call.pdf.text, "Net")
    /\ ~result.raised
    /\ result.ret.gross_salary = 850000
    /\ result.ret.net_salary = 800000

\* ---- the evaluation flow
EndpointReturned == call.op = "evaluate_creditworthiness_endpoint" /\ ~result.raised

\* the net salaries, above 0, that the analyses of the submitted pay slips found
PositiveNetSalaries ==
    {Analysed(call.pay_slips[i], "PAY_SLIP").ret.net_salary :
       i \in {j \in 1..3 : /\ call.pay_slips[j] # None
                            /\ Analysed(call.pay_slips[j], "PAY_SLIP").ret.valid
                            /\ Analysed(call.pay_slips[j], "PAY_SLIP").ret.net_salary > 0}}

\* C24: in the evaluation flow, when the analysis of a submitted pay slip
\* found a net salary above 0, the returned monthly_income is such a net
\* salary and not 0.
C24_IncomeFromPaySlips ==
    (EndpointReturned /\ PositiveNetSalaries # {})
        => result.ret.monthly_income \in PositiveNetSalaries

\* ---- income score
\* the net salaries of the submitted pay slips that state one
StatedSalaries == Salaries(call.documents)

\* bucket of the average net salary sum / n
IncomeLevelBucket(sum, n) ==
    IF sum >= 15000 * n THEN 40
    ELSE IF sum >= 10000 * n THEN 30
    ELSE IF sum >= 7000 * n THEN 20
    ELSE IF sum >= 4000 * n THEN 10
    ELSE 5

\* bonus of the ratio spread / (sum / n), the spread of the net salaries being
\* their largest less their smallest
ConsistencyBonus(spread, sum, n) ==
    IF sum > 0 /\ spread * n * 100 < 5 * sum THEN 20
    ELSE IF sum > 0 /\ spread * n * 100 < 15 * sum THEN 15
    ELSE IF sum > 0 /\ spread * n * 100 < 25 * sum THEN 10
    ELSE 5

CorroboratingTaxDeclarations ==
    SelectSeq(OfType(call.documents, "tax_declaration"),
              LAMBDA d : Truthy(d.extracted_data, "gross_annual_income"))

\* C25: income_score is the bucket of the average net salary, plus the
\* consistency bonus when several pay slips state a net salary, plus a single
\* 10 when a tax declaration states the annual income, at most 100.
C25_IncomeScore ==
    (call.op = "evaluate_creditworthiness" /\ ~result.raised)
        => LET n     == Len(StatedSalaries)
               sum   == SumSeq(StatedSalaries)
               level == IF n = 0 THEN 0 ELSE IncomeLevelBucket(sum, n)
               bonus == IF n < 2 THEN 0
                        ELSE ConsistencyBonus(MaxSeq(StatedSalaries) - MinSeq(StatedSalaries),
                                              sum, n)
               tax   == IF CorroboratingTaxDeclarations # <<>> THEN 10 ELSE 0
           IN  result.ret.income_score = 100 * Min(level + bonus + tax, 100)

\* the same with 10 for each tax declaration that states the annual income
C25_IncomeScorePerDeclaration ==
    (call.op = "evaluate_creditworthiness" /\ ~result.raised)
        => LET n     == Len(StatedSalaries)
               sum   == SumSeq(StatedSalaries)
               level == IF n = 0 THEN 0 ELSE IncomeLevelBucket(sum, n)
               bonus == IF n < 2 THEN 0
                        ELSE ConsistencyBonus(MaxSeq(StatedSalaries) - MinSeq(StatedSalaries),
                                              sum, n)
               tax   == 10 * Len(CorroboratingTaxDeclarations)
           IN  result.ret.income_score = 100 * Min(level + bonus + tax, 100)

\* ---- validation issues of absent fields
\* the fields of each document type that scoring expects
ExpectedFields(document_type) ==
    IF document_type = "pay_slip" THEN {"net_salary", "gross_salary", "employer_name"}
    ELSE IF document_type = "tax_declaration"
    THEN {"gross_annual_income", "taxable_income", "fiscal_year"}
    ELSE IF document_type = "bank_statement" THEN {"closing_balance", "account_holder"}
    ELSE {}

\* what finds a field in the text
FieldInText(text, field) ==
    IF field = "net_salary" THEN Captured(text, "NET A PAYER")
    ELSE IF field = "gross_salary"
    THEN Captured(text, "Total Brut") \/ Captured(text, "Salaire de Base")
    ELSE IF field = "employer_name" THEN "Employer" \in DOMAIN text.names
    ELSE IF field = "gross_annual_income" THEN Captured(text, "Revenu Brut Global")
    ELSE IF field = "taxable_income" THEN Captured(text, "Revenu Net Imposable")
    ELSE IF field = "fiscal_year" THEN "Annee Fiscale" \in DOMAIN text.names
    ELSE IF field = "closing_balance"
    THEN Captured(text, "Solde Final") \/ Captured(text, "Solde:")
    ELSE "Titulaire:" \in DOMAIN text.names

AbsentFields(text, document_type) ==
    {f \in ExpectedFields(document_type) : ~FieldInText(text, f)}

\* the validation issue that reports a field as absent
IssueOf(field) ==
    IF field = "net_salary" THEN "Net salary not found"
    ELSE IF field = "gross_salary" THEN "Gross salary not found"
    ELSE IF field = "employer_name" THEN "Employer name not found"
    ELSE IF field = "gross_annual_income" THEN "Annual income not found"
    ELSE IF field = "taxable_income" THEN "Taxable income not found"
    ELSE IF field = "fiscal_year" THEN "Fiscal year not found"
    ELSE IF field = "closing_balance" THEN "Balance not found"
    ELSE "Account holder not found"

ParsedDocument ==
    /\ call.op = "analyze_document"
    /\ call.pdf.readable
    /\ call.pdf.text.len >= 50

\* C26: when the text of a readable document lacks a field that scoring
\* expects, the analysis raises nothing and validation_issues has an entry
\* for that field.
C26_AbsentFieldReported ==
    (ParsedDocument /\ AbsentFields(call.pdf.text, call.document_type) # {})
        => /\ ~result.raised
           /\ \A f \in AbsentFields(call.pdf.text, call.document_type) :
                 IssueOf(f) \in Range(result.ret.validation_issues)

\* the same of the fields the validation looks at, for analyses that return
C26_ValidatedFieldReported ==
    (ParsedDocument /\ ~result.raised)
        => \A f \in AbsentFields(call.pdf.text, call.document_type)
                     \ {"gross_salary", "taxable_income"} :
             IssueOf(f) \in Range(result.ret.validation_issues)

\* ---- aggregation of analysis results
\* the analyses the evaluation in `call` hands to the aggregator: of the first
\* submitted pay slip, the tax declaration and the bank statement
FirstPaySlip ==
    call.pay_slips[CHOOSE i \in 1..3 : /\ call.pay_slips[i] # None
                                        /\ \A j \in 1..(i - 1) : call.pay_slips[j] = None]

AggregatedAnalyses ==
    (IF \E i \in 1..3 : call.pay_slips[i] # None
     THEN [pay_slip |-> Analysed(FirstPaySlip, "PAY_SLIP").ret] ELSE <<>>)
    @@ (IF call.tax_declaration # None
        THEN [tax_declaration |-> Analysed(call.tax_declaration, "TAX_DECLARATION").ret]
        ELSE <<>>)
    @@ (IF call.bank_statement # None
        THEN [bank_statement |-> Analysed(call.bank_statement, "BANK_STATEMENT").ret]
        ELSE <<>>)

\* twice the per-type score of an analysis: the sum of its two component scores
ComponentSum(k, analysis) ==
    IF k = "pay_slip" THEN analysis.scores.salary_score + analysis.scores.stability_score
    ELSE IF k = "tax_declaration"
    THEN analysis.scores.income_score + analysis.scores.compliance_score
    ELSE analysis.scores.balance_score + analysis.scores.cash_flow_score

TypeWeight(k) == IF k = "pay_slip" THEN 40 ELSE IF k = "tax_declaration" THEN 35 ELSE 25

RECURSIVE SumOver(_, _)
SumOver(S, f) ==
    IF S = {} THEN 0 ELSE LET k == CHOOSE x \in S : TRUE IN f[k] + SumOver(S \ {k}, f)

\* C27: the overall_score of an evaluation of analysis results is the mean of
\* their per-type scores weighted 40/35/25 over the types present, each
\* per-type score the mean of the two component scores of the analysis; it is
\* above 0 when every analysis scored above 0.
C27_WeightedMeanOfAnalyses ==
    (EndpointReturned /\ \A k \in DOMAIN AggregatedAnalyses : AggregatedAnalyses[k].valid)
        => LET types   == DOMAIN AggregatedAnalyses
               sums    == [k \in types |-> ComponentSum(k, AggregatedAnalyses[k])]
               weights == SumOver(types, [k \in types |-> TypeWeight(k)])
               total   == SumOver(types, [k \in types |-> TypeWeight(k) * sums[k]])
           IN  /\ result.ret.overall_score = RoundDiv(total, 20 * weights)
               /\ (\A k \in types : sums[k] > 0) => result.ret.overall_score > 0

\* ---- status of a parsed document
\* C28: analyze_document returns at most 3 validation issues and never the
\* status suspicious: the status is invalid, incomplete or valid, and valid
\* exactly when there is no validation issue.
C28_NeverSuspicious ==
    (call.op = "analyze_document" /\ ~result.raised)
        => /\ Len(result.ret.validation_issues) <= 3
           /\ result.ret.status \in {"invalid", "incomplete", "valid"}
           /\ result.ret.status = "valid" <=> result.ret.validation_issues = <<>>

\* a pay slip with three validation issues: no employer, a net salary above
\* the gross salary, and deductions below a tenth
C28_Witness ==
    /\ call.op = "analyze_document"
    /\ call.document_type = "pay_slip"
    /\ ~result.raised
    /\ Len(result.ret.validation_issues) = 3
    /\ result.ret.status = "invalid"

\* ---- artifacts that fail to load
ScoreReturned == call # Idle /\ call.op \in ScoreOps

\* C29: a score_* call of a kind with a missing or unloadable artifact returns
\* the rule-based score and raises nothing; a kind whose three artifacts
\* loaded is scored by its model whatever happened to the other kinds.
C29_FallbackPerKind ==
    /\ \A k \in Kinds :
          models_dir[k] = "complete" => (k \in models /\ k \in scalers /\ k \in features)
    /\ ScoreReturned =>
          /\ ~result.raised
          /\ models_dir[call.kind] # "complete"
                => result.ret = _fallback_score(call.kind, call.features)
          /\ (/\ models_dir[call.kind] = "complete"
              /\ FeatureColumns(call.kind) \subseteq DOMAIN call.features
              /\ ~call.outcome.raises)
                => result.ret = Clip(call.outcome.score)

\* a kind scored by its model while an artifact of another kind failed to load
C29_Witness ==
    /\ ScoreReturned
    /\ call.kind = "bank"
    /\ models_dir["bank"] = "complete"
    /\ \E k \in Kinds : models_dir[k] \in {"bad_model", "no_scaler", "no_meta"}
    /\ ~call.outcome.raises
    /\ result.ret = Clip(call.outcome.score)
    /\ result.ret # _fallback_score("bank", call.features)

\* a kind without its scaler scored by the rules
C29_WitnessFallback ==
    /\ ScoreReturned
    /\ models_dir[call.kind] = "no_scaler"
    /\ ~call.outcome.raises
    /\ result.ret = _fallback_score(call.kind, call.features)

\* ---- generated pay slips
PayslipRowReturned == call.op = "generate_payslip_data" /\ ~result.raised

\* C30: every generated pay slip row has amounts_match true, and is INVALID
\* only when has_required_fields is false.
C30_AmountsAlwaysMatch ==
    PayslipRowReturned
        => /\ result.ret.amounts_match
           /\ result.ret.status = "INVALID" => ~result.ret.has_required_fields

\* an INVALID pay slip row with deductions beyond CNSS and IR
C30_Witness ==
    /\ PayslipRowReturned
    /\ result.ret.status = "INVALID"
    /\ ~result.ret.has_required_fields
    /\ result.ret.amounts_match
    /\ result.ret.total_deductions
         >= result.ret.cnss_deduction + result.ret.ir_deduction + 100

====
